---- MODULE Spec2Model ----
(***************************************************************************)
(* Model of the eventheartbeat browser client: the SymphonyPlayer note     *)
(* sequencer, the Dashboard's push-event handling and stats                *)
(* reconciliation, and the BubbleAnimation message queue.                  *)
(*                                                                         *)
(* Line numbers refer to src/frontend/src/components/VideoModal.jsx for    *)
(* SymphonyPlayer (lines 140-459), src/unnamed/part_004 for the Dashboard  *)
(* (Dashboard.js) and src/unnamed/part_005 for BubbleAnimation             *)
(* (BubbleAnimation.js).                                                   *)
(*                                                                         *)
(* Time is measured in milliseconds.  Timers are idealised: a timer fires  *)
(* exactly when its delay has elapsed (time cannot pass a due timer).      *)
(***************************************************************************)
EXTENDS Integers, Sequences, FiniteSets, TLC

VARIABLES
    \* ---- SymphonyPlayer singleton `state` (lines 143-155) ----
    notes,          \* state.notes: sequence of [midi, seconds(ms)]
    cursor,         \* state.cursor
    currentSong,    \* state.currentSong
    piano,          \* state.piano is loaded (non-null)
    audioContext,   \* state.audioContext: "null" or "ctx"
    fxChain,        \* ensureFxChain has built masterGain/dryGain/wetGain/convolver
    wetGain,        \* state.wetGain.gain.value, in hundredths
    inits,          \* in-flight SymphonyPlayer.init calls, in call order
    \* ---- environment of the player ----
    ctxAvail,       \* whether `new AudioContext()` succeeds in this browser
    fxStorage,      \* localStorage items eventmobi_envelope_enabled, eventmobi_reverb_enabled
                    \* ("absent", "true" or "false") and eventmobi_reverb_wet (Null or
                    \* Some(n), n the stored number in hundredths)
    windowCtx,      \* window.__heartbeatAudioContext: "null" or a context
    contexts,       \* AudioContext objects constructed so far
    \* ---- App, StartPage and Setup ----
    app,            \* App's state: isSetup, apiKey, eventId, eventName, webhookBaseUrl,
                    \* webhookWarning, startAtEventSelection
    startPage,      \* StartPage's state: apiKey, remember, error
    setup,          \* Setup's state: apiKey, events, selectedEventId, loading, error, and
                    \* the await its effect or handleEventSelect is suspended at
    localStorage,   \* window.localStorage: item name -> value (NoItem when absent)
    sessionStorage, \* window.sessionStorage: item name -> value (NoItem when absent)
    \* ---- parseAbcSimple called on its own ----
    abcText,        \* the ABC text handed to the parser
    abcNotes,       \* Null, or Some(notes) once parseAbcSimple has returned
    \* ---- SessionList rendered on its own (SessionList.jsx) ----
    sessions,       \* the `sessions` prop: [id, kind, t], kind the start_datetime:
                    \* "none" (absent), "time" (a date, t its getTime()) or
                    \* "invalid" (a string that is no date)
    displaySessions,    \* Null, or Some(list) once the component has rendered
    \* ---- observation of the player ----
    played,         \* notes selected by playNextNote since the last load settled
    \* ---- Dashboard component state (useState) ----
    mounted,                \* the Dashboard is mounted and its effects have run
    currentEventId,
    soundEnabled,
    soundMode,              \* "Heartbeat" or "Symphony"
    symphonySong,           \* selected song file, "" when none
    stats,                  \* last applied snapshot
    eventIncrement,
    sessionIncrement,
    error,                  \* text of the dismissible banner, "" when hidden
    currentBubbleMessage,   \* Null or Some([text, id, event_type])
    activeSessions,
    \* ---- Dashboard refs (useRef) and effect-local objects ----
    messageCounterRef,
    socketRef,              \* Null or the socket, with the values its handlers closed over
    pendingStatsRefreshRef, \* Null or the id of the debounce timer armed last
    refreshTimers,          \* pending debounce timers: [id, eventId, left]
    statsIntervalRef,       \* Null or the running 180 s interval: [eventId, left]
    sessionsIntervalRef,    \* Null or the running 600 s interval
    initialFetchTimeout,    \* Null or the pending 500 ms timer of the effect
    retryTimers,            \* pending 5 s retry timers of failed stats fetches
    fetches,                \* HTTP requests in flight (a multiset, kept in a canonical order)
    \* ---- BubbleAnimation component (BubbleAnimation.js) ----
    renderedMessage,        \* the `message` prop of the last committed render
    messageQueueRef,        \* queued messages: [message, id, eventType]
    processingRef,          \* a drain loop is running
    bubbles,                \* visible bubbles, oldest first: [id, message, age]
    bubbleTimers,           \* pending setTimeout calls of the component, in creation order
    \* ---- observation of the bubble display ----
    enqueued,               \* messages pushed to the queue so far: [id, duringDrain]
    created,                \* message ids handed to addBubble so far
    sinceAdd,               \* ms since the last addBubble call, capped at BubbleStagger
    audioContextRef,        \* audioContextRef.current: "null" or a context
    \* ---- the server the Dashboard talks to (README.md, API endpoints) ----
    serverCheckins,         \* event check-ins that have occurred so far
    pushes,                 \* check-ins whose checkin_event push is still on its way
    \* ---- the Dashboard's socket (Dashboard.js lines 553-790) ----
    unmounted,              \* the Dashboard has been unmounted for good
    currentApiKey,          \* Dashboard state
    connected,              \* Dashboard state behind the connection indicator
    consecutiveFailuresRef,
    reconnectTimeoutRef,    \* Null, or Some("pending") / Some("cleared"): the id of the
                            \* 2 s banner timer, pending or no longer pending
    link,                   \* the socket of socketRef: "none" when there is no socket,
                            \* else "connecting", "retrying", "open" or "closed"
    attempts,               \* reconnection attempts since the link was last open
    subscribed,             \* Null or Some([event_id, api_key]): the subscribe emitted
                            \* on the open link
    connectTimers,          \* pending 1 s timers of line 718
    \* ---- environment of the socket ----
    reconnectOnSocket,      \* whether the installed socket.io-client delivers the
                            \* reconnect* events to the socket (version 2 does,
                            \* later versions deliver them to the Manager only)
    \* ---- observation of the socket ----
    sinceConnect,           \* connection failures since the last successful connection
    live,                   \* sockets not yet disconnected by the client and intervals
                            \* not yet cleared: [sockets, stats, sessions]
    \* ---- observation of the debounce ----
    lastPush,       \* Null or Some([delay, since]): the window of the last push that
                    \* armed the debounce timer and the time since it arrived
    op              \* the operation that made the last step

playerState == <<notes, cursor, currentSong, piano, audioContext, fxChain, wetGain, inits,
                played>>

\* the player and the window global its context lives in
seqVars == <<playerState, windowCtx, contexts>>

dashState == <<mounted, currentEventId, soundEnabled, soundMode, symphonySong, stats,
              eventIncrement, sessionIncrement, error, currentBubbleMessage,
              activeSessions>>

refreshVars == <<pendingStatsRefreshRef, refreshTimers, lastPush>>

dashRefs == <<messageCounterRef, socketRef, refreshVars, statsIntervalRef,
             sessionsIntervalRef, initialFetchTimeout, retryTimers, fetches>>

dashVars == <<dashState, dashRefs>>

bubbleVars == <<renderedMessage, messageQueueRef, processingRef, bubbles, bubbleTimers,
               enqueued, created, sinceAdd, audioContextRef>>

serverVars == <<serverCheckins, pushes>>

connVars == <<unmounted, currentApiKey, connected, consecutiveFailuresRef, reconnectTimeoutRef, link,
             attempts, subscribed, connectTimers, reconnectOnSocket, sinceConnect, live>>

\* the application shell around the dashboard, and the browser's storage
appVars == <<app, startPage, setup, localStorage, sessionStorage>>

\* inputs and results of the functions that are run on their own
pureVars == <<abcText, abcNotes, sessions, displaySessions>>

vars == <<seqVars, ctxAvail, appVars, pureVars, fxStorage, dashVars, bubbleVars, serverVars, connVars, op>>

----------------------------------------------------------------------------
(* Bounds *)

MaxPlayed == 6      \* playNextNote calls observed after one load
MaxInits == 2       \* SymphonyPlayer.init calls in flight at once

MaxDashPlayed == 3  \* notes requested by the Dashboard after one load
MaxMessages == 3    \* push messages accepted by the Dashboard
MaxIncrement == 2   \* check-ins counted between two snapshots
MaxFetches == 2     \* stats and session-list requests in flight or waiting for a retry
MaxLookups == 1     \* poke lookups in flight at once
MaxCount == 0       \* largest event check-in count in a stats response
MaxCheckins == 2    \* check-ins that occur at the server
MaxFailures == 13   \* value consecutiveFailuresRef is followed up to
MaxConnectTimers == 1   \* pending 1 s timers after server disconnects
MaxAudioPushes == 2     \* pushes followed while the sound mode changes
MaxFxInits == 1         \* song loads in flight while the effects are configured
MaxFxPlayed == 2        \* notes played while the effects are configured
MaxSessions == 17       \* sessions in a list handed to the session rail
MaxInvalid == 3         \* length of the lists that hold a start time that is no date

----------------------------------------------------------------------------
(* Constants of BubbleAnimation.js *)

MAX_BUBBLES == 12

BUBBLE_LIFETIME == 30000

\* delay between a queued message and the start of the drain loop (line 32)
BatchDelay == 50

\* delay between two bubbles of one drain loop (line 54)
BubbleStagger == 100

----------------------------------------------------------------------------
(* Values the Dashboard works with *)

\* a ref or state slot is either null or holds one object
Null == <<>>

Some(x) == <<x>>

EventIds == {"evt-1", "evt-2"}

ApiKeys == {"key-1", "key-2"}

SoundModes == {"Heartbeat", "Symphony"}

\* songs offered by the settings panel
DashSongs == {"two.abc"}

\* payloads of a checkin_event push
CheckinPayloads ==
    [message : {"", "hello"}, event_type : {"checkin", "scan"},
     checkin_type : {"event", "session", "none"}]

\* bodies of GET /api/event/{id}/stats
StatsBodies == {[event_checkins |-> n, session_checkins |-> n + 1] : n \in 0..MaxCount}

\* bodies of GET /api/event/{id}/active-sessions
SessionBodies == {<<>>, <<"s1", "s2">>}

\* bodies of GET /api/event/{id}/checkin-message
MessageBodies ==
    [message : {"", "hello"}, checkin_type : {"event", "session", "none"}]

----------------------------------------------------------------------------
(* Songs served by GET /api/songs/{filename}.  An ABC body is modelled as  *)
(* the sequence of its characters.                                         *)

SongFiles == {"four.abc", "two.abc", "rests.abc"}

AbcText(f) ==
    CASE f = "four.abc"  -> <<"C", "D", "|", "E", "F">>
      [] f = "two.abc"   -> <<"c", " ", "G">>
      [] f = "rests.abc" -> <<"|", "z", "|">>

PitchLetters == {"C", "D", "E", "F", "G", "A", "B", "c", "d", "e", "f", "g", "a", "b"}

IsLower(ch) == ch \in {"c", "d", "e", "f", "g", "a", "b"}

baseMidi(ch) ==
    CASE ch \in {"C", "c"} -> 60
      [] ch \in {"D", "d"} -> 62
      [] ch \in {"E", "e"} -> 64
      [] ch \in {"F", "f"} -> 65
      [] ch \in {"G", "g"} -> 67
      [] ch \in {"A", "a"} -> 69
      [] ch \in {"B", "b"} -> 71

\* durationFromToken('') : a note without duration suffix lasts 0.3 s
NoSuffixSeconds == 300

\* durationFromToken('/') (line 298), in ms
SlashSeconds == 150

Digits == {"0", "1", "2", "3", "4", "5", "6", "7", "8", "9"}

DigitVal(ch) ==
    CASE ch = "0" -> 0 [] ch = "1" -> 1 [] ch = "2" -> 2 [] ch = "3" -> 3
      [] ch = "4" -> 4 [] ch = "5" -> 5 [] ch = "6" -> 6 [] ch = "7" -> 7
      [] ch = "8" -> 8 [] ch = "9" -> 9

UpperLetters ==
    {"A", "B", "C", "D", "E", "F", "G", "H", "I", "J", "K", "L", "M", "N", "O", "P",
     "Q", "R", "S", "T", "U", "V", "W", "X", "Y", "Z"}

\* [_=^] of tokenRe (line 291)
Accidentals == {"_", "=", "^"}

\* the index after the longest run of characters of `set` that starts at i
RECURSIVE runEnd(_, _, _)
runEnd(s, i, set) ==
    IF i <= Len(s) /\ s[i] \in set THEN runEnd(s, i + 1, set) ELSE i

\* parseInt(s[i .. j-1], 10) for a run of digits
RECURSIVE parseInt(_, _, _)
parseInt(s, i, j) ==
    IF j <= i THEN 0 ELSE parseInt(s, i, j - 1) * 10 + DigitVal(s[j - 1])

\* abcText.split(/\r?\n/) (line 260)
RECURSIVE splitLines(_)
splitLines(text) ==
    IF \A i \in 1..Len(text) : text[i] # "\n"
    THEN <<text>>
    ELSE LET k == CHOOSE i \in 1..Len(text) :
                      text[i] = "\n" /\ \A j \in 1..(i - 1) : text[j] # "\n"
         IN  <<SubSeq(text, 1, k - 1)>> \o splitLines(SubSeq(text, k + 1, Len(text)))

\* /(\d+)\/(\d+)/ matches s from index i
fracAt(s, i) ==
    LET a == runEnd(s, i, Digits)
    IN  a > i /\ a <= Len(s) /\ s[a] = "/" /\ runEnd(s, a + 1, Digits) > a + 1

\* /(\d+)\/(\d+)\s*=\s*(\d+)/ matches s from index i
tempoAt(s, i) ==
    /\ fracAt(s, i)
    /\ LET e == runEnd(s, runEnd(s, runEnd(s, i, Digits) + 1, Digits), {" "})
       IN  e <= Len(s) /\ s[e] = "=" /\
           runEnd(s, runEnd(s, e + 1, {" "}), Digits) > runEnd(s, e + 1, {" "})

\* the leftmost index from which `at` matches, 0 when there is none
firstMatch(s, at(_, _)) ==
    IF \E i \in 1..Len(s) : at(s, i)
    THEN CHOOSE i \in 1..Len(s) : at(s, i) /\ \A j \in 1..(i - 1) : ~at(s, j)
    ELSE 0

digitAt(s, i) == s[i] \in Digits

\* lines 261-264: the values used when no header sets them
DefaultHeaders_QuarterNote == [lnum |-> 1, lden |-> 4, qnum |-> 1, qden |-> 4, bpm |-> 120]

DefaultHeaders == [lnum |-> 1, lden |-> 8, qnum |-> 1, qden |-> 4, bpm |-> 120]

\* lines 267-272: an L: line
readL(ln, h) ==
    LET i == firstMatch(ln, fracAt)
        a == runEnd(ln, i, Digits)
    IN  IF i = 0 THEN h
        ELSE [h EXCEPT !.lnum = parseInt(ln, i, a),
                       !.lden = parseInt(ln, a + 1, runEnd(ln, a + 1, Digits))]

\* lines 273-287: a Q: line, "1/4=90" or just "90"
readQ(ln, h) ==
    LET i == firstMatch(ln, tempoAt)
        a == runEnd(ln, i, Digits)
        b == runEnd(ln, a + 1, Digits)
        f == runEnd(ln, runEnd(ln, b, {" "}) + 1, {" "})
        k == firstMatch(ln, digitAt)
    IN  IF i # 0
        THEN [h EXCEPT !.qnum = parseInt(ln, i, a), !.qden = parseInt(ln, a + 1, b),
                       !.bpm = parseInt(ln, f, runEnd(ln, f, Digits))]
        ELSE IF k # 0
        THEN [h EXCEPT !.qnum = 1, !.qden = 4,
                       !.bpm = parseInt(ln, k, runEnd(ln, k, Digits))]
        ELSE h

startsWith(ln, letter) == Len(ln) >= 2 /\ ln[1] = letter /\ ln[2] = ":"

\* the loop of lines 266-288 over the lines from index n on
RECURSIVE readHeaders(_, _, _)
readHeaders(lines, n, h) ==
    IF n > Len(lines) THEN h
    ELSE readHeaders(lines, n + 1,
             IF startsWith(lines[n], "L") THEN readL(lines[n], h)
             ELSE IF startsWith(lines[n], "Q") THEN readQ(lines[n], h)
             ELSE h)

\* /^[A-Z]:/.test(l.trim()) (line 290)
isField(l) ==
    LET t == runEnd(l, 1, {" "})
    IN  t + 1 <= Len(l) /\ l[t] \in UpperLetters /\ l[t + 1] = ":"

\* lines.filter(...).join(' ') (line 290)
RECURSIVE joinContent(_, _)
joinContent(lines, n) ==
    IF n > Len(lines) THEN <<>>
    ELSE LET rest == joinContent(lines, n + 1)
             more == \E j \in (n + 1)..Len(lines) : ~isField(lines[j])
         IN  IF isField(lines[n]) THEN rest
             ELSE lines[n] \o (IF more THEN <<" ">> ELSE <<>>) \o rest

\* durationFromToken (lines 295-311) for the token s[i .. j-1], in ms rounded
\* down; the numbers of the headers and of the token are positive
durationFromToken(s, i, j, h) ==
    LET a == runEnd(s, i, Digits)
        n == parseInt(s, i, a)
        d == IF a < j THEN parseInt(s, a + 1, j) ELSE 1
        bpm == IF h.bpm < 30 THEN 30 ELSE IF h.bpm > 300 THEN 300 ELSE h.bpm
        ms == (60000 * h.qden * h.lnum * n) \div (h.qnum * bpm * h.lden * d)
    IN  IF j = i THEN NoSuffixSeconds
        ELSE IF runEnd(s, i, {"/"}) = j THEN SlashSeconds \div (j - i)
        ELSE IF a = i THEN NoSuffixSeconds
        ELSE IF ms < 80 THEN 80 ELSE IF ms > 1500 THEN 1500 ELSE ms

\* the end of group 4 of tokenRe, (\d+(?:\/\d+)?|\/\d+|\/+)?, from index o
durEnd(s, o) ==
    LET a == runEnd(s, o, Digits)
    IN  IF a > o
        THEN IF a <= Len(s) /\ s[a] = "/" /\ runEnd(s, a + 1, Digits) > a + 1
             THEN runEnd(s, a + 1, Digits) ELSE a
        ELSE IF o <= Len(s) /\ s[o] = "/"
        THEN IF runEnd(s, o + 1, Digits) > o + 1
             THEN runEnd(s, o + 1, Digits) ELSE runEnd(s, o, {"/"})
        ELSE o

\* lines 329-332
accidentalShift(acc) ==
    IF acc = <<"^">> THEN 1
    ELSE IF acc = <<"^", "^">> THEN 2
    ELSE IF acc = <<"_">> THEN -1
    ELSE IF acc = <<"_", "_">> THEN -2
    ELSE 0

\* lines 324-327: apostrophes up, commas down
octaveShift(marks) ==
    12 * (Len(SelectSeq(marks, LAMBDA ch : ch = "'"))
          - Len(SelectSeq(marks, LAMBDA ch : ch = ",")))

\* the loop of lines 313-337: the matches of tokenRe in s from index i on
RECURSIVE parseFrom(_, _, _)
parseFrom(s, i, h) ==
    IF i > Len(s) THEN <<>>
    ELSE LET n == IF i + 2 <= Len(s) /\ s[i] \in Accidentals /\ s[i + 1] \in Accidentals
                     /\ s[i + 2] \in PitchLetters THEN 2
                  ELSE IF i + 1 <= Len(s) /\ s[i] \in Accidentals
                     /\ s[i + 1] \in PitchLetters THEN 1
                  ELSE 0
             l == i + n
             o == runEnd(s, l + 1, {"'", ","})
             d == durEnd(s, o)
         IN  IF s[l] \in PitchLetters
             THEN <<[midi |-> baseMidi(s[l]) + (IF IsLower(s[l]) THEN 12 ELSE 0)
                              + octaveShift(SubSeq(s, l + 1, o - 1))
                              + accidentalShift(SubSeq(s, i, l - 1)),
                     seconds |-> durationFromToken(s, o, d, h)]>>
                  \o parseFrom(s, d, h)
             ELSE parseFrom(s, i + 1, h)

parseAbcSimple(text) ==
    parseFrom(joinContent(splitLines(text), 1), 1,
              readHeaders(splitLines(text), 1, DefaultHeaders))

\* parseAbcToNotes: the simple parse, or [] when it yields nothing
parseAbcToNotes(text) ==
    IF Len(parseAbcSimple(text)) > 0 THEN parseAbcSimple(text) ELSE <<>>

----------------------------------------------------------------------------
(* SymphonyPlayer *)

RemoveAt(s, i) == [j \in 1..(Len(s) - 1) |-> IF j < i THEN s[j] ELSE s[j + 1]]

\* the AudioContext objects the page can construct, in order of construction
CtxIds == <<"ctx", "ctx-2", "ctx-3">>

Constructed == {CtxIds[i] : i \in 1..contexts}

\* `new Ctx()`: the next context, or "null" when the constructor throws
NewCtx == IF ctxAvail /\ contexts < Len(CtxIds) THEN CtxIds[contexts + 1] ELSE "null"

\* ctx.state === 'closed': no component ever calls close() on a context
IsClosed(c) == FALSE

\* getOrCreateAudioContext() (VideoModal.jsx lines 239-252, BubbleAnimation.js
\* lines 64-77): the shared context, or "null" when it cannot be made
getOrCreateAudioContext_AlwaysNew == NewCtx

getOrCreateAudioContext ==
    IF windowCtx # "null" /\ ~IsClosed(windowCtx) THEN windowCtx ELSE NewCtx

\* what getOrCreateAudioContext() leaves in the window global when `called`
acquire(called) ==
    LET c == getOrCreateAudioContext
    IN  /\ windowCtx' = IF called /\ c # "null" THEN c ELSE windowCtx
        /\ contexts' = IF called /\ c \notin Constructed \cup {"null"}
                        THEN contexts + 1 ELSE contexts

\* getSettingBool (lines 156-160)
getSettingBool(v, fallback) == IF v = "absent" THEN fallback ELSE v = "true"

\* getSettingNumber (lines 162-168) for an item that holds a number
getSettingNumber(v, fallback, min, max) ==
    IF v = Null THEN fallback
    ELSE IF v[1] < min THEN min ELSE IF v[1] > max THEN max ELSE v[1]

\* fallback of eventmobi_reverb_wet (line 209), in hundredths
ReverbWetDefault == 15

\* the value applyFxSettingsFromStorage gives state.wetGain (lines 207-211)
applyFxSettingsFromStorage ==
    IF getSettingBool(fxStorage.reverb, FALSE)
    THEN getSettingNumber(fxStorage.wet, ReverbWetDefault, 0, 100)
    ELSE 0

\* init, catch branch (lines 406-410)
InitFailed_KeepsNotes ==
    /\ UNCHANGED <<notes, cursor>>
    /\ played' = <<>>

InitFailed_KeepsCursor ==
    /\ notes' = <<>>
    /\ cursor' = cursor
    /\ played' = <<>>

InitFailed ==
    /\ notes' = <<>>
    /\ cursor' = 0
    /\ played' = <<>>

\* init, lines 400-403: the parsed notes replace state.notes, cursor restarts
InitLoaded_KeepsCursor(f, text) ==
    /\ notes' = parseAbcToNotes(text)
    /\ cursor' = cursor
    /\ currentSong' = f
    /\ played' = <<>>

InitLoaded(f, text) ==
    /\ notes' = parseAbcToNotes(text)
    /\ cursor' = 0
    /\ currentSong' = f
    /\ played' = <<>>

\* init up to its first await (lines 382-390 / 399)
initStart(f) ==
    /\ audioContext' = getOrCreateAudioContext
    /\ acquire(TRUE)
    /\ IF audioContext' = "null" /\ ~fxChain
       THEN \* ensureFxChain(null) throws; caught by the outer catch
            /\ InitFailed
            /\ UNCHANGED <<currentSong, piano, fxChain, wetGain, inits>>
       ELSE /\ Len(inits) < MaxInits
            /\ fxChain' = TRUE
            /\ wetGain' = applyFxSettingsFromStorage
            /\ inits' = Append(inits, [file |-> f,
                                       pc |-> IF piano THEN "fetch" ELSE "piano"])
            /\ UNCHANGED <<notes, cursor, currentSong, piano, played>>

\* Soundfont.instrument settles (lines 387-398)
initPianoSettled(i, ok) ==
    /\ i \in 1..Len(inits)
    /\ inits[i].pc = "piano"
    /\ piano' = ok
    /\ inits' = [inits EXCEPT ![i].pc = "fetch"]
    /\ UNCHANGED <<notes, cursor, currentSong, audioContext, fxChain, wetGain, played,
                   windowCtx, contexts>>

\* loadAbcFromFilename settles (lines 399-411)
initSongSettled(i, ok) ==
    /\ i \in 1..Len(inits)
    /\ inits[i].pc = "fetch"
    /\ inits' = RemoveAt(inits, i)
    /\ IF ok
       THEN InitLoaded(inits[i].file, AbcText(inits[i].file))
       ELSE InitFailed /\ UNCHANGED currentSong
    /\ UNCHANGED <<piano, audioContext, fxChain, wetGain, windowCtx, contexts>>

\* line 417
NextCursor_NoWrap(idx, n) == idx + 1

NextCursor(idx, n) == (idx + 1) % n

\* The sound one playNextNote call starts (lines 414-447): "silent" (empty
\* note list), "piano", "tone", "none" (playTone found no context) or "threw"
\* (ensureFxChain(null) raised).
NoteSound(pianoOk) ==
    LET ctx == IF audioContext # "null" THEN audioContext ELSE getOrCreateAudioContext
    IN  IF Len(notes) = 0 THEN "silent"
        ELSE IF ctx = "null" /\ ~fxChain THEN "threw"
        ELSE IF piano /\ ctx # "null" /\ pianoOk THEN "piano"
        ELSE IF ctx # "null" THEN "tone"
        ELSE "none"

\* lines 426-445: playTone is called from the else branch, or from the catch
\* branch when the piano path raised
toneRequested_Always(pianoOk) == TRUE

toneRequested(pianoOk) ==
    LET ctx == IF audioContext # "null" THEN audioContext ELSE getOrCreateAudioContext
    IN  ~(piano /\ ctx # "null") \/ ~pianoOk

\* the sounds one playNextNote call starts on a non-empty note list: the
\* sample of state.piano.play (line 431) and the oscillator of playTone
\* (lines 357-378), which returns at once without a context
SoundsStarted(pianoOk) ==
    LET ctx == IF audioContext # "null" THEN audioContext ELSE getOrCreateAudioContext
    IN  (IF piano /\ ctx # "null" /\ pianoOk THEN {"piano"} ELSE {})
        \cup (IF toneRequested(pianoOk) /\ ctx # "null" THEN {"tone"} ELSE {})

\* line 425: the wet gain a note is played with
wetAtNote_Cached == wetGain

wetAtNote == applyFxSettingsFromStorage

\* the localStorage items one playNextNote call reads: the reverb items in
\* applyFxSettingsFromStorage (line 425), the envelope item in
\* createPerNoteEnvelope (line 219), which only the piano path reaches
ItemsRead(pianoOk) ==
    IF Len(notes) = 0 \/ NoteSound(pianoOk) = "threw" THEN {}
    ELSE {"eventmobi_reverb_enabled", "eventmobi_reverb_wet"}
         \cup (IF "piano" \in SoundsStarted(pianoOk)
               THEN {"eventmobi_envelope_enabled"} ELSE {})

\* the envelope of the note's sound: the per-note envelope of lines 213-237
\* ("soft" with attack and release, "hard" without) or the fixed ramp of
\* playTone (lines 369-373)
NoteEnvelope(pianoOk) ==
    IF "piano" \in SoundsStarted(pianoOk)
    THEN IF getSettingBool(fxStorage.envelope, TRUE) THEN "soft" ELSE "hard"
    ELSE "fixed"

\* playNextNote (lines 413-448); pianoOk: state.piano.play does not throw
playNextNote(pianoOk) ==
    IF Len(notes) = 0
    THEN UNCHANGED seqVars
    ELSE LET idx == cursor % Len(notes)
             ctx == IF audioContext # "null" THEN audioContext
                    ELSE getOrCreateAudioContext
         IN /\ cursor' = NextCursor(idx, Len(notes))
            /\ audioContext' = ctx
            /\ acquire(audioContext = "null")
            /\ fxChain' = (fxChain \/ ctx # "null")
            /\ wetGain' = IF fxChain' THEN wetAtNote ELSE wetGain
            /\ played' = Append(played, [idx |-> idx, midi |-> notes[idx + 1].midi])
            /\ UNCHANGED <<notes, currentSong, piano, inits>>

----------------------------------------------------------------------------
(* The player driven directly by its callers *)

SeqInit(f) ==
    /\ initStart(f)
    /\ op' = [name |-> "init", file |-> f, failed |-> (inits' = inits)]
    /\ UNCHANGED <<ctxAvail, appVars, pureVars, fxStorage, connVars, serverVars, dashVars, bubbleVars>>

SeqPianoSettled(i, ok) ==
    /\ initPianoSettled(i, ok)
    /\ op' = [name |-> "pianoSettled", ok |-> ok]
    /\ UNCHANGED <<ctxAvail, appVars, pureVars, fxStorage, connVars, serverVars, dashVars, bubbleVars>>

SeqSongSettled(i, ok) ==
    /\ initSongSettled(i, ok)
    /\ op' = [name |-> "songSettled", ok |-> ok, file |-> inits[i].file,
              cursorBefore |-> cursor]
    /\ UNCHANGED <<ctxAvail, appVars, pureVars, fxStorage, connVars, serverVars, dashVars, bubbleVars>>

SeqPlay(pianoOk) ==
    /\ Len(played) < MaxPlayed
    /\ playNextNote(pianoOk)
    /\ op' = [name |-> "playNextNote", sound |-> NoteSound(pianoOk),
              sounds |-> IF Len(notes) = 0 \/ NoteSound(pianoOk) = "threw"
                         THEN {} ELSE SoundsStarted(pianoOk),
              pianoOk |-> pianoOk, read |-> ItemsRead(pianoOk),
              envelope |-> NoteEnvelope(pianoOk), wetBefore |-> wetGain]
    /\ UNCHANGED <<ctxAvail, appVars, pureVars, fxStorage, connVars, serverVars, dashVars, bubbleVars>>

PlayerInit ==
    /\ notes = <<>>
    /\ cursor = 0
    /\ currentSong = "none"
    /\ piano = FALSE
    /\ audioContext = "null"
    /\ windowCtx = "null"
    /\ contexts = 0
    /\ fxChain = FALSE
    /\ wetGain = 0
    /\ inits = <<>>
    /\ played = <<>>

\* ---- App, StartPage and Setup (src/unnamed/part_001, part_005, part_004) ----

\* getItem's null; the code only tests stored values for truthiness, so an absent
\* item and a stored empty string are not told apart
NoItem == ""

LocalItems == {"eventHeartbeat:key", "eventmobi_api_key", "eventmobi_event_id",
               "eventmobi_event_name", "eventmobi_webhook_base_url"}

SessionItems == {"eventHeartbeat:key"}

\* process.env.REACT_APP_API_URL || window.location.origin (part_004 line 53)
API_BASE_URL == "origin"

\* a || b of JavaScript on strings
OrElse(a, b) == IF a # "" THEN a ELSE b

\* useState initial values of App (part_001 lines 11-20)
AppState ==
    [isSetup |-> FALSE, apiKey |-> "", eventId |-> "", eventName |-> "",
     webhookBaseUrl |-> "", webhookWarning |-> "", startAtEventSelection |-> FALSE]

\* useState initial values of StartPage (part_005 lines 207-210)
StartPageState == [apiKey |-> "", remember |-> FALSE, error |-> ""]

\* useState initial values of Setup (part_004 lines 56-62), with the initialApiKey
\* prop; pc is the await the component is suspended at
SetupState(initialApiKey) ==
    [apiKey |-> initialApiKey, events |-> {}, selectedEventId |-> "", eventName |-> "",
     loading |-> FALSE, error |-> "", pc |-> "idle"]

\* what App renders (part_001 lines 70-134)
Screen ==
    IF app.isSetup THEN "Dashboard"
    ELSE IF \/ app.startAtEventSelection
            \/ sessionStorage["eventHeartbeat:key"] # NoItem
            \/ localStorage["eventHeartbeat:key"] # NoItem
         THEN "Setup"
         ELSE "StartPage"

\* the key App hands to Setup (part_001 line 87)
InitialApiKey(local, session) ==
    OrElse(local["eventHeartbeat:key"], session["eventHeartbeat:key"])

\* the events the account has: one with a name in the list, one without
AccountEvents == {[id |-> "evt-1", name |-> "Expo"], [id |-> "evt-2", name |-> ""]}

\* the first page load of a browser that holds nothing of the application
AppFresh ==
    /\ app = AppState
    /\ startPage = StartPageState
    /\ setup = SetupState("")
    /\ localStorage = [i \in LocalItems |-> NoItem]
    /\ sessionStorage = [i \in SessionItems |-> NoItem]

\* a page load of a browser in which setup was completed in an earlier visit: the
\* mount effect (part_001 lines 22-36) has read the saved key and event
AppSetUp ==
    /\ app = [AppState EXCEPT !.isSetup = TRUE, !.apiKey = "key-1", !.eventId = "evt-1",
                              !.eventName = "Expo", !.webhookBaseUrl = API_BASE_URL]
    /\ startPage = StartPageState
    /\ setup = SetupState("")
    /\ localStorage = [i \in LocalItems |->
                         CASE i = "eventmobi_api_key" -> "key-1"
                           [] i = "eventmobi_event_id" -> "evt-1"
                           [] i = "eventmobi_event_name" -> "Expo"
                           [] i = "eventmobi_webhook_base_url" -> API_BASE_URL
                           [] OTHER -> NoItem]
    /\ sessionStorage = [i \in SessionItems |-> NoItem]

\* the user fills in the start page (part_005 inputs of the form)
TypeKey(k, r) ==
    /\ Screen = "StartPage"
    /\ startPage' = [startPage EXCEPT !.apiKey = k, !.remember = r]
    /\ op' = [name |-> "typeKey"]
    /\ UNCHANGED <<app, setup, localStorage, sessionStorage>>

\* the Setup effect of step 2 (part_004 lines 65-87) as run when Setup is mounted
\* with the given storage
setupMounted(local, session) ==
    LET initial == InitialApiKey(local, session)
        key == OrElse(initial, OrElse(local["eventHeartbeat:key"],
                                      session["eventHeartbeat:key"]))
    IN  IF key = "" THEN SetupState(initial)
        ELSE [SetupState(initial) EXCEPT !.apiKey = key, !.loading = TRUE,
                                         !.pc = "events"]

\* StartPage.handleSubmit (part_005 lines 224-242) with App's onContinue
\* (part_001 lines 99-107) and the mount of Setup that follows
handleSubmit ==
    /\ Screen = "StartPage"
    /\ LET trimmed == startPage.apiKey
       IN  IF trimmed = ""
           THEN /\ startPage' = [startPage EXCEPT
                                   !.error = "Please enter an API key to continue."]
                /\ UNCHANGED <<app, setup, localStorage, sessionStorage>>
           ELSE LET local == [localStorage EXCEPT !["eventHeartbeat:key"] =
                                IF startPage.remember THEN trimmed ELSE NoItem]
                    session == [sessionStorage EXCEPT !["eventHeartbeat:key"] =
                                  IF startPage.remember THEN NoItem ELSE trimmed]
                IN  /\ startPage' = [startPage EXCEPT !.error = ""]
                    /\ localStorage' = local
                    /\ sessionStorage' = session
                    /\ app' = [app EXCEPT !.startAtEventSelection = TRUE]
                    /\ setup' = setupMounted(local, session)
    /\ op' = [name |-> "handleSubmit"]

\* the POST /api/setup of the Setup effect settles (part_004 lines 78-86)
EventsSettled(ok) ==
    /\ Screen = "Setup"
    /\ setup.pc = "events"
    /\ setup' = IF ok
                THEN [setup EXCEPT !.events = AccountEvents, !.loading = FALSE,
                                   !.pc = "idle"]
                ELSE [setup EXCEPT !.error = "Failed to validate API key",
                                   !.loading = FALSE, !.pc = "idle"]
    /\ op' = [name |-> "eventsSettled"]
    /\ UNCHANGED <<app, startPage, localStorage, sessionStorage>>

\* the user picks an entry of the event list
SelectEvent(id) ==
    /\ Screen = "Setup"
    /\ setup.pc = "idle"
    /\ id \in {""} \cup {e.id : e \in setup.events}
    /\ id # setup.selectedEventId
    /\ setup' = [setup EXCEPT !.selectedEventId = id]
    /\ op' = [name |-> "selectEvent"]
    /\ UNCHANGED <<app, startPage, localStorage, sessionStorage>>

\* Setup.handleEventSelect up to its first await (part_004 lines 118-150)
handleEventSelect ==
    /\ Screen = "Setup"
    /\ setup.pc = "idle"
    /\ IF setup.selectedEventId = ""
       THEN setup' = [setup EXCEPT !.error = "Please select an event",
                                   !.loading = FALSE]
       ELSE LET selectedEvent == CHOOSE e \in setup.events : e.id = setup.selectedEventId
            IN  setup' = [setup EXCEPT !.error = "", !.loading = TRUE,
                                       !.eventName = selectedEvent.name,
                                       !.pc = IF selectedEvent.name = "" THEN "details"
                                              ELSE "webhook"]
    /\ op' = [name |-> "handleEventSelect"]
    /\ UNCHANGED <<app, startPage, localStorage, sessionStorage>>

\* the event details request settles (part_004 lines 135-145): name is what the
\* answer carries, "" when the request failed
DetailsSettled(name) ==
    /\ Screen = "Setup"
    /\ setup.pc = "details"
    /\ setup' = [setup EXCEPT !.eventName = OrElse(name, setup.eventName),
                              !.pc = "webhook"]
    /\ op' = [name |-> "detailsSettled"]
    /\ UNCHANGED <<app, startPage, localStorage, sessionStorage>>

\* how the register-webhook request can end: fetch rejects, the body is not JSON,
\* or a JSON body arrives with the given HTTP status, success flag and message
WebhookOutcomes ==
    {[settled |-> s, ok |-> FALSE, success |-> FALSE, message |-> ""] :
        s \in {"rejects", "notJson"}}
    \cup {[settled |-> "json", ok |-> o, success |-> s, message |-> m] :
            o \in BOOLEAN, s \in BOOLEAN, m \in {"", "Webhook limit reached"}}

\* the registration succeeded (part_004 line 165)
Registered(r) == r.settled = "json" /\ r.ok /\ r.success

FailedWarning == "Webhook registration failed."

\* App.handleSetupComplete (part_001 lines 38-53)
handleSetupComplete(data) ==
    /\ app' = [app EXCEPT !.apiKey = data.apiKey, !.eventId = data.eventId,
                          !.eventName = data.eventName,
                          !.webhookBaseUrl = data.webhookBaseUrl,
                          !.webhookWarning = data.webhookWarning,
                          !.isSetup = TRUE]
    /\ localStorage' = [localStorage EXCEPT
                          !["eventmobi_api_key"] = data.apiKey,
                          !["eventmobi_event_id"] = data.eventId,
                          !["eventmobi_event_name"] = data.eventName,
                          !["eventmobi_webhook_base_url"] =
                              OrElse(data.webhookBaseUrl, @)]

\* whether the try block of handleEventSelect reaches onSetupComplete
\* (part_004 lines 147-180): a rejected fetch or a body that is not JSON throws
reachesComplete_Always(r) == TRUE

reachesComplete(r) == r.settled = "json"

\* the register-webhook request settles: the rest of handleEventSelect
\* (part_004 lines 150-185) with the onSetupComplete it calls
WebhookSettled(r) ==
    /\ Screen = "Setup"
    /\ setup.pc = "webhook"
    /\ IF reachesComplete(r)
       THEN /\ handleSetupComplete(
                  [apiKey |-> setup.apiKey, eventId |-> setup.selectedEventId,
                   eventName |-> setup.eventName, webhookBaseUrl |-> API_BASE_URL,
                   webhookWarning |-> IF Registered(r) THEN ""
                                      ELSE OrElse(r.message, FailedWarning)])
            /\ setup' = [setup EXCEPT !.loading = FALSE, !.pc = "idle"]
       ELSE /\ setup' = [setup EXCEPT !.error = "Failed to fetch", !.loading = FALSE,
                                      !.pc = "idle"]
            /\ UNCHANGED <<app, localStorage>>
    /\ op' = [name |-> "webhookSettled", result |-> r,
              remember |-> startPage.remember]
    /\ UNCHANGED <<startPage, sessionStorage>>

\* App.handleReset (part_001 lines 55-68), called from the dashboard; the start
\* page is mounted anew
\* storage.removeItem for each of the items named
removeItems(storage, items) ==
    [i \in DOMAIN storage |-> IF i \in items THEN NoItem ELSE storage[i]]

\* the items handleReset removes from localStorage (lines 60-63 and 66)
ResetLocalItems_KeepsStartKey ==
    {"eventmobi_api_key", "eventmobi_event_id", "eventmobi_event_name",
     "eventmobi_webhook_base_url"}

ResetLocalItems ==
    {"eventmobi_api_key", "eventmobi_event_id", "eventmobi_event_name",
     "eventmobi_webhook_base_url", "eventHeartbeat:key"}

handleReset ==
    /\ app' = [app EXCEPT !.isSetup = FALSE, !.apiKey = "", !.eventId = "",
                          !.eventName = "", !.webhookBaseUrl = "",
                          !.startAtEventSelection = FALSE]
    /\ localStorage' = removeItems(localStorage, ResetLocalItems)
    /\ sessionStorage' = removeItems(sessionStorage, {"eventHeartbeat:key"})
    /\ startPage' = StartPageState
    /\ setup' = SetupState("")

\* handleReset called while App shows the Dashboard
AppReset ==
    /\ Screen = "Dashboard"
    /\ handleReset
    /\ op' = [name |-> "handleReset"]

\* no text is being parsed on its own
ParserIdle ==
    /\ abcText = <<>>
    /\ abcNotes = Null
    /\ sessions = <<>>
    /\ displaySessions = Null

\* a browser in which the sound effects were never configured
StorageInit ==
    fxStorage = [envelope |-> "absent", reverb |-> "absent", wet |-> Null]

\* first render of the Dashboard, before its effects run (lines 402-447);
\* the sound settings come from localStorage
DashboardInit ==
    /\ mounted = FALSE
    /\ currentEventId = "evt-1"
    /\ soundEnabled \in BOOLEAN
    /\ soundMode \in SoundModes
    /\ symphonySong \in {""} \cup DashSongs
    /\ stats = [event_checkins |-> 0, session_checkins |-> 0]
    /\ eventIncrement = 0
    /\ sessionIncrement = 0
    /\ error = ""
    /\ currentBubbleMessage = Null
    /\ activeSessions = <<>>
    /\ messageCounterRef = 0
    /\ socketRef = Null
    /\ pendingStatsRefreshRef = Null
    /\ refreshTimers = <<>>
    /\ lastPush = Null
    /\ statsIntervalRef = Null
    /\ sessionsIntervalRef = Null
    /\ initialFetchTimeout = Null
    /\ retryTimers = <<>>
    /\ fetches = <<>>

\* BubbleAnimation before its first message (lines 8-12)
BubbleInit ==
    /\ renderedMessage = Null
    /\ messageQueueRef = <<>>
    /\ processingRef = FALSE
    /\ bubbles = <<>>
    /\ bubbleTimers = <<>>
    /\ enqueued = <<>>
    /\ created = <<>>
    /\ sinceAdd = BubbleStagger
    /\ audioContextRef = "null"

\* no check-in has occurred yet
ServerInit ==
    /\ serverCheckins = 0
    /\ pushes = 0

\* the Dashboard before its socket exists (lines 405-447)
SocketInit ==
    /\ unmounted = FALSE
    /\ currentApiKey = "key-1"
    /\ connected = FALSE
    /\ consecutiveFailuresRef = 0
    /\ reconnectTimeoutRef = Null
    /\ link = "none"
    /\ attempts = 0
    /\ subscribed = Null
    /\ connectTimers = 0
    /\ sinceConnect = 0
    /\ live = [sockets |-> 0, stats |-> 0, sessions |-> 0]

\* the player alone: no Dashboard is mounted
InitSeq ==
    /\ PlayerInit
    /\ ParserIdle
    /\ AppSetUp
    /\ StorageInit
    /\ ctxAvail \in BOOLEAN
    /\ DashboardInit
    /\ BubbleInit
    /\ ServerInit
    /\ SocketInit
    /\ reconnectOnSocket = FALSE
    /\ soundEnabled = TRUE
    /\ soundMode = "Heartbeat"
    /\ symphonySong = ""
    /\ op = [name |-> "start"]

NextSeq ==
    \/ \E f \in SongFiles : SeqInit(f)
    \/ \E i \in 1..MaxInits, ok \in BOOLEAN : SeqPianoSettled(i, ok)
    \/ \E i \in 1..MaxInits, ok \in BOOLEAN : SeqSongSettled(i, ok)
    \/ \E pianoOk \in BOOLEAN : SeqPlay(pianoOk)

SpecSeq == InitSeq /\ [][NextSeq]_vars

\* Two selections in a row: init for SongA when nothing was loaded or asked
\* for yet, then init for SongB while the first is in flight; both files are
\* served, in either order, and notes are played before, between and after.
SongA == "four.abc"
SongB == "two.abc"

NextRace ==
    \/ inits = <<>> /\ currentSong = "none" /\ SeqInit(SongA)
    \/ Len(inits) = 1 /\ inits[1].file = SongA /\ currentSong = "none" /\ SeqInit(SongB)
    \/ \E i \in 1..MaxInits, ok \in BOOLEAN : SeqPianoSettled(i, ok)
    \/ \E i \in 1..MaxInits : SeqSongSettled(i, TRUE)
    \/ \E pianoOk \in BOOLEAN : SeqPlay(pianoOk)

SpecRace == InitSeq /\ [][NextRace]_vars

----------------------------------------------------------------------------
(* The ABC parser on tunes with and without headers *)

\* an L: line: none, the default, another length, and two that do not match
LHeaders ==
    {<<>>,
     <<<<"L", ":", "1", "/", "8">>>>,
     <<<<"L", ":", "1", "/", "4">>>>,
     <<<<"L", ":", "x">>>>,
     <<<<" ", "L", ":", "1", "/", "4">>>>}

\* a Q: line: none, the default, the two accepted forms, and one that does not match
QHeaders ==
    {<<>>,
     <<<<"Q", ":", "1", "/", "4", "=", "1", "2", "0">>>>,
     <<<<"Q", ":", "9", "0">>>>,
     <<<<"Q", ":", "1", "/", "2", " ", "=", " ", "6", "0">>>>,
     <<<<"Q", ":", "f", "a", "s", "t">>>>}

\* tune bodies: "C2 D/", "^c'3/2|G," and "e4 F//"
Bodies ==
    {<<<<"C", "2", " ", "D", "/">>>>,
     <<<<"^", "c", "'", "3", "/", "2", "|", "G", ",">>>>,
     <<<<"e", "4", " ", "F", "/", "/">>>>}

\* the text whose lines are `lines`
RECURSIVE joinLines(_)
joinLines(lines) ==
    IF Len(lines) = 0 THEN <<>>
    ELSE IF Len(lines) = 1 THEN lines[1]
    ELSE lines[1] \o <<"\n">> \o joinLines(Tail(lines))

AbcInputs == {joinLines(l \o q \o b) : l \in LHeaders, q \in QHeaders, b \in Bodies}

\* what the user can type as a key: nothing, or one of the keys
TypedKeys == {""} \cup ApiKeys

InitSetup ==
    /\ PlayerInit
    /\ ParserIdle
    /\ AppFresh
    /\ StorageInit
    /\ ctxAvail = TRUE
    /\ DashboardInit
    /\ BubbleInit
    /\ ServerInit
    /\ SocketInit
    /\ reconnectOnSocket = FALSE
    /\ soundEnabled = TRUE
    /\ soundMode = "Heartbeat"
    /\ symphonySong = ""
    /\ op = [name |-> "start"]

setupRest == <<seqVars, ctxAvail, pureVars, fxStorage, dashVars, bubbleVars, serverVars,
               connVars>>

NextSetup ==
    \/ \E k \in TypedKeys, r \in BOOLEAN : TypeKey(k, r) /\ UNCHANGED setupRest
    \/ handleSubmit /\ UNCHANGED setupRest
    \/ \E ok \in BOOLEAN : EventsSettled(ok) /\ UNCHANGED setupRest
    \/ \E id \in {""} \cup EventIds : SelectEvent(id) /\ UNCHANGED setupRest
    \/ handleEventSelect /\ UNCHANGED setupRest
    \/ \E name \in {"", "Summit"} : DetailsSettled(name) /\ UNCHANGED setupRest
    \/ \E r \in WebhookOutcomes : WebhookSettled(r) /\ UNCHANGED setupRest
    \/ AppReset /\ UNCHANGED setupRest

SpecSetup == InitSetup /\ [][NextSetup]_vars

----------------------------------------------------------------------------
\* a call of parseAbcSimple (VideoModal.jsx lines 259-340)
ParseAbc ==
    /\ abcNotes = Null
    /\ abcNotes' = Some(parseAbcSimple(abcText))
    /\ op' = [name |-> "parseAbcSimple"]
    /\ UNCHANGED <<abcText, sessions, displaySessions, seqVars, ctxAvail, appVars, fxStorage, connVars, serverVars, dashVars,
                   bubbleVars>>

InitAbc ==
    /\ PlayerInit
    /\ abcText \in AbcInputs
    /\ abcNotes = Null
    /\ sessions = <<>>
    /\ displaySessions = Null
    /\ AppSetUp
    /\ StorageInit
    /\ ctxAvail = TRUE
    /\ DashboardInit
    /\ BubbleInit
    /\ ServerInit
    /\ SocketInit
    /\ reconnectOnSocket = FALSE
    /\ soundEnabled = TRUE
    /\ soundMode = "Symphony"
    /\ symphonySong = ""
    /\ op = [name |-> "start"]

NextAbc == ParseAbc

SpecAbc == InitAbc /\ [][NextAbc]_vars

----------------------------------------------------------------------------
(* The session rail (SessionList.jsx) *)

\* .slice(0, 15) (line 43)
RailSize == 15

Session(i, t) == [id |-> i, kind |-> "time", t |-> t]

\* session lists: oldest first, newest first, and mixed with equal start times
Ascending(n) == [i \in 1..n |-> Session(i, i)]

Descending(n) == [i \in 1..n |-> Session(i, n + 1 - i)]

Mixed(n) == [i \in 1..n |-> Session(i, ((i * 5) % 7) + 1)]

\* the list with the start_datetime of its k-th session replaced
WithStart(list, k, kind) == [list EXCEPT ![k] = [id |-> k, kind |-> kind, t |-> 0]]

SessionLists ==
    LET bases == UNION {{Ascending(n), Descending(n), Mixed(n)} : n \in 0..MaxSessions}
    IN  bases
        \cup UNION {{WithStart(l, k, "none") : k \in 1..Len(l)} : l \in bases}
        \cup UNION {{WithStart(l, k, "invalid") : k \in 1..Len(l)} :
                       l \in {b \in bases : Len(b) <= MaxInvalid}}

\* lines 39-40: the time the comparator uses; new Date(s).getTime() of a string
\* that is no date is NaN
getTime(s) == IF s.kind = "none" THEN 0 ELSE s.t

IsNaN(s) == s.kind = "invalid"

\* Array.prototype.sort with the comparator of lines 38-42 where it is a
\* consistent comparison: the stable sort by time, newest first
RECURSIVE sortNewestFirst(_)
sortNewestFirst(list) ==
    IF Len(list) <= 1 THEN list
    ELSE LET x == list[Len(list)]
             front == sortNewestFirst(SubSeq(list, 1, Len(list) - 1))
             keep == Cardinality({i \in 1..Len(front) : getTime(front[i]) >= getTime(x)})
         IN  SubSeq(front, 1, keep) \o <<x>> \o SubSeq(front, keep + 1, Len(front))

\* the orders Array.prototype.sort may leave the list in: the comparator
\* returns NaN for a start time that is no date, and with a comparator that is
\* not consistent the order is implementation-defined
sortResults(list) ==
    IF \A i \in 1..Len(list) : ~IsNaN(list[i])
    THEN {sortNewestFirst(list)}
    ELSE {[i \in 1..Len(list) |-> list[f[i]]] : f \in Permutations(1..Len(list))}

slice(list, n) == SubSeq(list, 1, IF Len(list) < n THEN Len(list) ELSE n)

\* SessionList renders (lines 36-43)
RenderRail ==
    /\ displaySessions = Null
    /\ \E sorted \in sortResults(sessions) :
           displaySessions' = Some(slice(sorted, RailSize))
    /\ op' = [name |-> "renderRail"]
    /\ UNCHANGED <<abcText, abcNotes, sessions, seqVars, ctxAvail, appVars, fxStorage, connVars,
                   serverVars, dashVars, bubbleVars>>

InitRail ==
    /\ PlayerInit
    /\ abcText = <<>>
    /\ abcNotes = Null
    /\ sessions \in SessionLists
    /\ displaySessions = Null
    /\ AppSetUp
    /\ StorageInit
    /\ ctxAvail = TRUE
    /\ DashboardInit
    /\ BubbleInit
    /\ ServerInit
    /\ SocketInit
    /\ reconnectOnSocket = FALSE
    /\ soundEnabled = TRUE
    /\ soundMode = "Heartbeat"
    /\ symphonySong = ""
    /\ op = [name |-> "start"]

NextRail == RenderRail

SpecRail == InitRail /\ [][NextRail]_vars

----------------------------------------------------------------------------
(* The player while the sound effects are configured *)

\* numbers the range input of the panel can store (min 0, max 1, step 0.05)
PanelWet == {0, 70}

\* numbers an eventmobi_reverb_wet item left in the browser may hold
StoredWet == PanelWet \cup {-50, 150}

\* the envelope checkbox changes (SettingsPanel.jsx line 406)
StoreEnvelope(checked) ==
    /\ fxStorage' = [fxStorage EXCEPT !.envelope = IF checked THEN "true" ELSE "false"]
    /\ fxStorage' # fxStorage
    /\ op' = [name |-> "storeFx"]
    /\ UNCHANGED <<seqVars, ctxAvail, appVars, pureVars, connVars, serverVars, dashVars, bubbleVars>>

\* the reverb checkbox changes (SettingsPanel.jsx line 419)
StoreReverb(checked) ==
    /\ fxStorage' = [fxStorage EXCEPT !.reverb = IF checked THEN "true" ELSE "false"]
    /\ fxStorage' # fxStorage
    /\ op' = [name |-> "storeFx"]
    /\ UNCHANGED <<seqVars, ctxAvail, appVars, pureVars, connVars, serverVars, dashVars, bubbleVars>>

\* the reverb slider moves (SettingsPanel.jsx line 434)
StoreReverbWet(value) ==
    /\ fxStorage' = [fxStorage EXCEPT !.wet = Some(value)]
    /\ fxStorage' # fxStorage
    /\ op' = [name |-> "storeFx"]
    /\ UNCHANGED <<seqVars, ctxAvail, appVars, pureVars, connVars, serverVars, dashVars, bubbleVars>>

\* the player alone, in a browser whose localStorage holds any effect items
InitFx ==
    /\ PlayerInit
    /\ ParserIdle
    /\ AppSetUp
    /\ fxStorage \in [envelope : {"absent", "true", "false"},
                       reverb : {"absent", "true", "false"},
                       wet : {Null} \cup {Some(v) : v \in StoredWet}]
    /\ ctxAvail = TRUE
    /\ DashboardInit
    /\ BubbleInit
    /\ ServerInit
    /\ SocketInit
    /\ reconnectOnSocket = FALSE
    /\ soundEnabled = TRUE
    /\ soundMode = "Symphony"
    /\ symphonySong = ""
    /\ op = [name |-> "start"]

NextFx ==
    \/ Len(inits) < MaxFxInits /\ currentSong = "none" /\ SeqInit("two.abc")
    \/ \E ok \in BOOLEAN : SeqPianoSettled(1, ok)
    \/ SeqSongSettled(1, TRUE)
    \/ \E pianoOk \in BOOLEAN : Len(played) < MaxFxPlayed /\ SeqPlay(pianoOk)
    \/ \E checked \in BOOLEAN : StoreEnvelope(checked)
    \/ \E checked \in BOOLEAN : StoreReverb(checked)
    \/ \E value \in PanelWet : StoreReverbWet(value)

SpecFx == InitFx /\ [][NextFx]_vars

----------------------------------------------------------------------------
(* Dashboard: requests and timers (Dashboard.js) *)

\* An HTTP request in flight.  signal: "none" (no AbortSignal passed) or
\* "live" (the signal of the current effect run); symphony: what `soundEnabled && soundMode === 'Symphony'`
\* evaluates to in the closure that will handle the response.
Request(kind, e, signal, symphony) ==
    [kind |-> kind, eventId |-> e, signal |-> signal, symphony |-> symphony]

\* Requests settle in any order, so the order in which they were issued is
\* not kept: `fetches` is stored sorted by Rank.
Rank(r) ==
    (CASE r.kind = "stats" -> 0 [] r.kind = "sessions" -> 1 [] r.kind = "lookup" -> 2) * 8
    + (IF r.eventId = "evt-1" THEN 0 ELSE 1) * 4
    + (IF r.signal = "none" THEN 0 ELSE 1) * 2
    + (IF r.symphony THEN 1 ELSE 0)

Issue(reqs, r) ==
    LET before == SelectSeq(reqs, LAMBDA x : Rank(x) <= Rank(r))
        after == SelectSeq(reqs, LAMBDA x : Rank(x) > Rank(r))
    IN  before \o <<r>> \o after

RECURSIVE IssueAll(_, _)
IssueAll(reqs, rs) ==
    IF rs = <<>> THEN reqs ELSE IssueAll(Issue(reqs, Head(rs)), Tail(rs))

IsLookup(r) == r.kind = "lookup"

IsPoll(r) == r.kind # "lookup"

\* stats and session-list requests in flight, and stats requests waiting
\* for their retry timer
Outstanding == Len(SelectSeq(fetches, IsPoll)) + Len(retryTimers)

\* controller.abort() in the effect cleanup (line 816).  A request made with
\* the signal rejects at once and its handler returns at `signal.aborted`
\* (lines 495, 521) without touching any state; a retry timer stays pending
\* and finds the signal aborted when it fires (line 500).
NotLive(r) == r.signal # "live"

AbortRequests(reqs) == SelectSeq(reqs, NotLive)

AbortTimers(timers) ==
    [j \in 1..Len(timers) |->
        IF timers[j].signal = "live" THEN [timers[j] EXCEPT !.signal = "aborted"]
        ELSE timers[j]]

\* periods of the two polls (lines 546 and 552)
StatsPeriod == 180000

SessionsPeriod == 600000

\* delay of the retry after a failed stats fetch (line 502)
RetryDelay == 5000

\* fetchStats success path, lines 487-493
StatsApplied_KeepsSessionIncrement(data) ==
    /\ stats' = data
    /\ eventIncrement' = 0
    /\ sessionIncrement' = sessionIncrement
    /\ error' = ""

StatsApplied(data) ==
    /\ stats' = data
    /\ eventIncrement' = 0
    /\ sessionIncrement' = 0
    /\ error' = ""

\* fetchStats after its request settled (lines 483-503)
fetchStatsSettled_ResetsOnFailure(i, ok, data) ==
    /\ i \in 1..Len(fetches)
    /\ fetches[i].kind = "stats"
    /\ fetches' = RemoveAt(fetches, i)
    /\ IF ok
       THEN StatsApplied(data) /\ UNCHANGED retryTimers
       ELSE /\ error' = "Error loading stats"
            /\ retryTimers' = Append(retryTimers,
                                     [eventId |-> fetches[i].eventId,
                                      signal |-> fetches[i].signal,
                                      delay |-> RetryDelay])
            /\ eventIncrement' = 0
            /\ sessionIncrement' = 0
            /\ UNCHANGED stats

fetchStatsSettled(i, ok, data) ==
    /\ i \in 1..Len(fetches)
    /\ fetches[i].kind = "stats"
    /\ fetches' = RemoveAt(fetches, i)
    /\ IF ok
       THEN StatsApplied(data) /\ UNCHANGED retryTimers
       ELSE /\ error' = "Error loading stats"
            /\ retryTimers' = Append(retryTimers,
                                     [eventId |-> fetches[i].eventId,
                                      signal |-> fetches[i].signal,
                                      delay |-> RetryDelay])
            /\ UNCHANGED <<stats, eventIncrement, sessionIncrement>>

\* fetchActiveSessions after its request settled (lines 509-525)
fetchActiveSessionsSettled_Appends(i, ok, data) ==
    /\ i \in 1..Len(fetches)
    /\ fetches[i].kind = "sessions"
    /\ fetches' = RemoveAt(fetches, i)
    /\ activeSessions' = IF ok THEN activeSessions \o data ELSE <<>>

fetchActiveSessionsSettled(i, ok, data) ==
    /\ i \in 1..Len(fetches)
    /\ fetches[i].kind = "sessions"
    /\ fetches' = RemoveAt(fetches, i)
    /\ activeSessions' = IF ok THEN data ELSE <<>>

\* the requests that controller.abort() (line 816) rejects
Aborted(reqs, kind) ==
    \E i \in 1..Len(reqs) : reqs[i].kind = kind /\ reqs[i].signal = "live"

\* the catch block of fetchActiveSessions (lines 520-525) run for the requests
\* an abort rejects: it returns at line 521
sessionsCatchAborted_NoCheck(reqs) ==
    IF Aborted(reqs, "sessions") THEN <<>> ELSE activeSessions

sessionsCatchAborted(reqs) == activeSessions

\* a handler that labels the message with the counter as it stands
acceptMessage_NoIncrement(text, eventType) ==
    IF text # ""
    THEN /\ messageCounterRef' = messageCounterRef
         /\ currentBubbleMessage' = Some([text |-> text, id |-> messageCounterRef + 1,
                                          event_type |-> eventType])
    ELSE UNCHANGED <<messageCounterRef, currentBubbleMessage>>

\* lines 612-621 and 675-682: a message is accepted for the bubble display
acceptMessage(text, eventType) ==
    IF text # ""
    THEN /\ messageCounterRef' = messageCounterRef + 1
         /\ currentBubbleMessage' = Some([text |-> text, id |-> messageCounterRef + 1,
                                          event_type |-> eventType])
    ELSE UNCHANGED <<messageCounterRef, currentBubbleMessage>>

\* lines 626-639 and 684-692
countCheckin(checkinType) ==
    /\ eventIncrement' = IF checkinType = "event" THEN eventIncrement + 1
                         ELSE eventIncrement
    /\ sessionIncrement' = IF checkinType = "session" THEN sessionIncrement + 1
                           ELSE sessionIncrement

\* debounce windows: 10 s after a checkin_event (line 661), 3 s after a poke
\* (line 707)
EventRefreshDelay == 10000

PokeRefreshDelay == 3000

\* clearTimeout(ref.current) behind `if (ref.current)`
clearTimeout(timers, ref) ==
    IF ref = Null THEN timers
    ELSE SelectSeq(timers, LAMBDA t : t.id # ref[1])

\* the id setTimeout returns: one that no pending timer has
FreshTimerId(timers) ==
    CHOOSE n \in 0..Len(timers) :
        /\ \A j \in 1..Len(timers) : timers[j].id # n
        /\ \A m \in 0..(n - 1) : \E j \in 1..Len(timers) : timers[j].id = m

\* lines 651-661 and 700-707: cancel the pending refresh timer and arm a new one
armRefresh_NoClear(e, delay) ==
    /\ refreshTimers' = Append(refreshTimers,
                               [id |-> FreshTimerId(refreshTimers), eventId |-> e,
                                left |-> delay])
    /\ pendingStatsRefreshRef' = Some(FreshTimerId(refreshTimers))
    /\ lastPush' = Some([delay |-> delay, since |-> 0])

armRefresh(e, delay) ==
    LET kept == clearTimeout(refreshTimers, pendingStatsRefreshRef)
    IN  /\ refreshTimers' = Append(kept, [id |-> FreshTimerId(kept), eventId |-> e,
                                          left |-> delay])
        /\ pendingStatsRefreshRef' = Some(FreshTimerId(kept))
        /\ lastPush' = Some([delay |-> delay, since |-> 0])

\* Bounds on what one behaviour accumulates
Room ==
    /\ messageCounterRef < MaxMessages
    /\ eventIncrement + sessionIncrement < MaxIncrement
    /\ Len(played) < MaxDashPlayed

\* the handler of a push touches neither poll (lines 607-662)
intervalsKept_Restarted ==
    /\ statsIntervalRef' = Some([statsIntervalRef[1] EXCEPT !.left = StatsPeriod])
    /\ sessionsIntervalRef' = sessionsIntervalRef

intervalsKept ==
    /\ statsIntervalRef' = statsIntervalRef
    /\ sessionsIntervalRef' = sessionsIntervalRef

\* socket.on('checkin_event') (lines 607-662)
checkin_event(data, pianoOk) ==
    /\ mounted
    /\ socketRef # Null
    /\ link = "open"
    /\ acceptMessage(data.message, data.event_type)
    /\ IF data.event_type = "checkin"
       THEN countCheckin(data.checkin_type)
       ELSE UNCHANGED <<eventIncrement, sessionIncrement>>
    /\ IF socketRef[1].soundEnabled /\ socketRef[1].soundMode = "Symphony"
       THEN playNextNote(pianoOk)
       ELSE UNCHANGED seqVars
    /\ armRefresh(socketRef[1].eventId, EventRefreshDelay)
    /\ intervalsKept
    /\ op' = [name |-> "checkin_event", rearmed |-> (pendingStatsRefreshRef # Null)]
    /\ UNCHANGED <<mounted, currentEventId, soundEnabled, soundMode, symphonySong, stats,
                   error, activeSessions, socketRef, initialFetchTimeout, retryTimers,
                   fetches, ctxAvail, appVars, pureVars, fxStorage, connVars, bubbleVars>>

CheckinEvent(data, pianoOk) ==
    /\ Room
    /\ checkin_event(data, pianoOk)
    /\ UNCHANGED serverVars

\* the test of lines 666-668 on a poke for eventId, made with the event id the
\* handler closed over
pokeHandled_Always(eventId) == TRUE

pokeHandled(eventId) == eventId = socketRef[1].eventId

\* how many of the nIds resource ids of a poke are looked up (lines 669-672:
\* resourceIds[0] when there is one)
lookedUp_All(nIds) == nIds

lookedUp(nIds) == IF nIds > 0 THEN 1 ELSE 0

\* socket.on('checkin_poke') (lines 665-708); nIds: length of data.resource_ids;
\* op.ids: the ids the handler got to read
CheckinPoke(eventId, nIds) ==
    /\ mounted
    /\ socketRef # Null
    /\ link = "open"
    /\ op' = [name |-> "checkin_poke", matched |-> (eventId = socketRef[1].eventId),
              rearmed |-> (eventId = socketRef[1].eventId /\ pendingStatsRefreshRef # Null),
              ids |-> IF eventId = socketRef[1].eventId THEN nIds ELSE 0]
    /\ IF ~pokeHandled(eventId)
       THEN UNCHANGED <<fetches, refreshVars>>
       ELSE /\ nIds > 0 => Len(SelectSeq(fetches, IsLookup)) < MaxLookups
            /\ fetches' = IssueAll(fetches,
                  [j \in 1..lookedUp(nIds) |->
                     Request("lookup", socketRef[1].eventId, "none",
                             socketRef[1].soundEnabled /\ socketRef[1].soundMode = "Symphony")])
            /\ armRefresh(socketRef[1].eventId, PokeRefreshDelay)
    /\ UNCHANGED <<dashState, messageCounterRef, socketRef, statsIntervalRef,
                   sessionsIntervalRef, initialFetchTimeout, retryTimers, seqVars,
                   ctxAvail, appVars, pureVars, fxStorage, connVars, serverVars, bubbleVars>>

\* msg.event_type || 'checkin' (line 681), for a body with or without the field
eventTypeOf(msg) ==
    IF "event_type" \in DOMAIN msg THEN msg.event_type ELSE "checkin"

\* the checkin-message lookup of a poke settled (lines 673-698)
LookupSettled(i, ok, msg, pianoOk) ==
    /\ mounted
    /\ i \in 1..Len(fetches)
    /\ fetches[i].kind = "lookup"
    /\ fetches' = RemoveAt(fetches, i)
    /\ op' = [name |-> "lookupSettled", accepted |-> (ok /\ msg.message # "")]
    /\ IF ok /\ msg.message # ""
       THEN /\ Room
            /\ acceptMessage(msg.message, eventTypeOf(msg))
            /\ countCheckin(msg.checkin_type)
            /\ IF fetches[i].symphony
               THEN playNextNote(pianoOk)
               ELSE UNCHANGED seqVars
       ELSE UNCHANGED <<messageCounterRef, currentBubbleMessage, eventIncrement,
                        sessionIncrement, seqVars>>
    /\ UNCHANGED <<mounted, currentEventId, soundEnabled, soundMode, symphonySong, stats,
                   error, activeSessions, socketRef, refreshVars,
                   statsIntervalRef, sessionsIntervalRef, initialFetchTimeout,
                   retryTimers, ctxAvail, appVars, pureVars, fxStorage, connVars, serverVars, bubbleVars>>

\* the effect of lines 474-478, run when soundMode or symphonySong changed
symphonyEffect(mode, song) ==
    IF mode = "Symphony" /\ song # ""
    THEN initStart(song)
    ELSE UNCHANGED seqVars

\* body of the effect of lines 528-790 for the render with API key k and
\* event id e: the timers, and a new socket whose handlers close over k, e and
\* the sound settings
\* 1 when the ref holds an object, 0 when it is null
Held(ref) == IF ref # Null THEN 1 ELSE 0

\* removeAllListeners() and disconnect() on the socket the ref holds (lines
\* 806-814, 836-845, 943-947)
socketClosed(l) == [l EXCEPT !.sockets = @ - Held(socketRef)]

\* clearInterval on what the two interval refs hold (lines 794-799)
intervalsCleared_Never(l) == l

intervalsCleared(l) ==
    [l EXCEPT !.stats = @ - Held(statsIntervalRef),
              !.sessions = @ - Held(sessionsIntervalRef)]

\* setInterval twice and io(...) once (lines 544, 550, 572)
resourcesCreated(l) ==
    [sockets |-> l.sockets + 1, stats |-> l.stats + 1, sessions |-> l.sessions + 1]

effectSetup(k, e, se, sm) ==
    /\ initialFetchTimeout' = Some([eventId |-> e])
    /\ statsIntervalRef' = Some([eventId |-> e, left |-> StatsPeriod])
    /\ sessionsIntervalRef' = Some([eventId |-> e, left |-> SessionsPeriod])
    /\ socketRef' = Some([eventId |-> e, apiKey |-> k, soundEnabled |-> se, soundMode |-> sm])
    /\ link' = "connecting"
    /\ attempts' = 0
    /\ subscribed' = Null

\* first commit of the Dashboard: its effects run
Mount ==
    /\ ~mounted
    /\ ~unmounted
    /\ mounted' = TRUE
    /\ symphonyEffect(soundMode, symphonySong)
    /\ effectSetup(currentApiKey, currentEventId, soundEnabled, soundMode)
    /\ live' = resourcesCreated(live)
    /\ op' = [name |-> "mount"]
    /\ UNCHANGED <<currentEventId, soundEnabled, soundMode, symphonySong, stats,
                   eventIncrement, sessionIncrement, error, currentBubbleMessage,
                   activeSessions, messageCounterRef, refreshVars,
                   retryTimers, fetches, ctxAvail, appVars, pureVars, fxStorage, serverVars, bubbleVars,
                   currentApiKey, connected, consecutiveFailuresRef, reconnectTimeoutRef,
                   connectTimers, reconnectOnSocket, sinceConnect, unmounted>>

\* clearTimeout(reconnectTimeoutRef.current) behind `if (reconnectTimeoutRef.current)`;
\* the ref keeps the id (lines 730-732 and 803-805)
clearBanner(ref) == IF ref = Some("pending") THEN Some("cleared") ELSE ref

\* socket.on('disconnect') (lines 710-738) for a disconnect the client did not ask for
disconnectHandler(reason) ==
    /\ connected' = FALSE
    /\ connectTimers' = IF reason = "io server disconnect" THEN connectTimers + 1
                        ELSE connectTimers
    /\ reconnectTimeoutRef' = clearBanner(reconnectTimeoutRef)
    /\ error' = IF consecutiveFailuresRef > 3 THEN "Connection lost. Reconnecting..."
                ELSE error

\* removeAllListeners(), disconnect() and socketRef.current = null (lines 811-813,
\* 837-844 and 943-947): no listener is left to hear of the disconnect
closeSocket_Reported ==
    /\ connected' = FALSE
    /\ connectTimers' = connectTimers
    /\ error' = IF consecutiveFailuresRef > 3 THEN "Connection lost. Reconnecting..."
                ELSE error

closeSocket ==
    /\ connected' = connected
    /\ connectTimers' = connectTimers
    /\ error' = error

\* SettingsPanel.handleSave (SettingsPanel.jsx lines 188-189): the key and the
\* event are stored before the Dashboard is told
handleSave(k, e) ==
    [localStorage EXCEPT !["eventmobi_api_key"] = k, !["eventmobi_event_id"] = e]

\* handleSettingsUpdate (lines 820-851) and the effects of the render it causes:
\* the socket effect (cleanup lines 793-817, then setup) runs only when the
\* API key or the event id changed (dependency list, line 818)
handleSettingsUpdate(k, e, se, sm, song) ==
    /\ mounted
    /\ currentApiKey' = k
    /\ currentEventId' = e
    /\ soundEnabled' = se
    /\ soundMode' = sm
    /\ symphonySong' = song
    /\ closeSocket
    /\ IF e # currentEventId \/ k # currentApiKey
       THEN /\ effectSetup(k, e, se, sm)
            /\ live' = resourcesCreated(intervalsCleared(socketClosed(live)))
            /\ refreshTimers' = clearTimeout(refreshTimers, pendingStatsRefreshRef)
            /\ pendingStatsRefreshRef' = Null
            /\ lastPush' = Null
            /\ reconnectTimeoutRef' = clearBanner(reconnectTimeoutRef)
            /\ fetches' = AbortRequests(fetches)
            /\ activeSessions' = sessionsCatchAborted(fetches)
            /\ retryTimers' = AbortTimers(retryTimers)
       ELSE /\ socketRef' = Null
            /\ live' = socketClosed(live)
            /\ link' = "none"
            /\ attempts' = 0
            /\ subscribed' = Null
            /\ UNCHANGED <<refreshVars, statsIntervalRef, sessionsIntervalRef,
                           initialFetchTimeout, fetches, retryTimers, reconnectTimeoutRef,
                           activeSessions>>
    /\ IF sm # soundMode \/ song # symphonySong
       THEN symphonyEffect(sm, song)
       ELSE UNCHANGED seqVars
    /\ op' = [name |-> "settingsUpdate",
              aborted |-> /\ (e # currentEventId \/ k # currentApiKey)
                          /\ Aborted(fetches, "sessions")]
    /\ localStorage' = handleSave(k, e)
    /\ UNCHANGED <<mounted, stats, eventIncrement, sessionIncrement,
                   currentBubbleMessage, messageCounterRef, ctxAvail, app, startPage, setup,
                   sessionStorage, pureVars, fxStorage,
                   serverVars, bubbleVars, consecutiveFailuresRef, reconnectOnSocket,
                   sinceConnect, unmounted>>

\* settings saved with the API key left as it is
SettingsUpdate(e, se, sm, song) == handleSettingsUpdate(currentApiKey, e, se, sm, song)

\* the 'Disconnect and reset' button (lines 940-959): the handler closes the
\* socket, the parent's handleReset unmounts the Dashboard and the cleanup of
\* lines 793-817 runs
Reset ==
    /\ mounted
    /\ mounted' = FALSE
    /\ unmounted' = TRUE
    /\ closeSocket
    /\ socketRef' = Null
    /\ link' = "none"
    /\ attempts' = 0
    /\ subscribed' = Null
    /\ statsIntervalRef' = Null
    /\ sessionsIntervalRef' = Null
    /\ initialFetchTimeout' = Null
    /\ refreshTimers' = clearTimeout(refreshTimers, pendingStatsRefreshRef)
    /\ pendingStatsRefreshRef' = Null
    /\ lastPush' = Null
    /\ reconnectTimeoutRef' = clearBanner(reconnectTimeoutRef)
    /\ fetches' = AbortRequests(fetches)
    /\ retryTimers' = AbortTimers(retryTimers)
    /\ live' = intervalsCleared(socketClosed(live))
    /\ handleReset
    /\ op' = [name |-> "reset", was |-> link, unsubscribed |-> (socketRef # Null)]
    /\ UNCHANGED <<currentEventId, soundEnabled, soundMode, symphonySong, stats,
                   eventIncrement, sessionIncrement, currentBubbleMessage,
                   activeSessions, messageCounterRef, seqVars, ctxAvail, pureVars, fxStorage, serverVars,
                   bubbleVars, currentApiKey, consecutiveFailuresRef, reconnectOnSocket,
                   sinceConnect>>

\* socket.on('connect') (lines 587-597)
connectHandler_FirstOnly ==
    /\ connected' = TRUE
    /\ error' = ""
    /\ subscribed' = IF link = "connecting"
                     THEN Some([event_id |-> socketRef[1].eventId,
                                api_key |-> socketRef[1].apiKey])
                     ELSE Null

connectHandler ==
    /\ connected' = TRUE
    /\ error' = ""
    /\ subscribed' = Some([event_id |-> socketRef[1].eventId,
                           api_key |-> socketRef[1].apiKey])

\* whether this attempt of the socket is one the library reports to the
\* socket's reconnect* handlers
Reported == reconnectOnSocket /\ link = "retrying"

\* socket.on('reconnect') (lines 750-769), where the library delivers it; it
\* comes with 'connect', whose handler sets the same state and emits the same
\* subscribe
reconnectHandler ==
    /\ consecutiveFailuresRef' = IF Reported THEN 0 ELSE consecutiveFailuresRef
    /\ reconnectTimeoutRef' = IF Reported THEN Null ELSE reconnectTimeoutRef

\* the connection attempt of the socket succeeds
SocketConnects ==
    /\ mounted
    /\ link \in {"connecting", "retrying"}
    /\ link' = "open"
    /\ attempts' = 0
    /\ sinceConnect' = 0
    /\ reconnectHandler
    /\ connectHandler
    /\ op' = [name |-> "connect", reconnection |-> (link = "retrying")]
    /\ UNCHANGED <<mounted, currentEventId, soundEnabled, soundMode, symphonySong, stats,
                   eventIncrement, sessionIncrement, currentBubbleMessage,
                   activeSessions, dashRefs, seqVars, ctxAvail, appVars, pureVars, fxStorage, serverVars, bubbleVars,
                   currentApiKey, connectTimers, reconnectOnSocket, unmounted, live>>

\* socket.on('reconnect_attempt') (lines 771-779), where the library delivers it,
\* for attempt number n
reconnectAttemptHandler(n) ==
    IF Reported /\ n > 5 /\ reconnectTimeoutRef = Null
    THEN Some("pending")
    ELSE reconnectTimeoutRef

\* a connection attempt of the socket fails: socket.on('connect_error') (lines
\* 740-748) and, where the library delivers them, 'reconnect_attempt' before it
\* and 'reconnect_error' (lines 787-790) after it
SocketConnectFails ==
    /\ mounted
    /\ link \in {"connecting", "retrying"}
    /\ consecutiveFailuresRef + 2 <= MaxFailures
    /\ link' = "retrying"
    /\ attempts' = IF Reported THEN attempts + 1 ELSE attempts
    /\ sinceConnect' = sinceConnect + 1
    /\ reconnectTimeoutRef' = reconnectAttemptHandler(attempts + 1)
    /\ consecutiveFailuresRef' = consecutiveFailuresRef + (IF Reported THEN 2 ELSE 1)
    /\ error' = IF consecutiveFailuresRef + 1 > 5
                THEN "Connection issues. Will keep trying to reconnect..."
                ELSE error
    /\ op' = [name |-> "connect_error", banner |-> (consecutiveFailuresRef + 1 > 5)]
    /\ UNCHANGED <<mounted, currentEventId, soundEnabled, soundMode, symphonySong, stats,
                   eventIncrement, sessionIncrement, currentBubbleMessage,
                   activeSessions, dashRefs, seqVars, ctxAvail, appVars, pureVars, fxStorage, serverVars, bubbleVars,
                   currentApiKey, connected, subscribed, connectTimers,
                   reconnectOnSocket, unmounted, live>>

\* the open link is lost (reason 'transport close' or 'ping timeout'), or the
\* server closes it (reason 'io server disconnect'), after which the library
\* does not reconnect by itself
SocketDisconnected(reason) ==
    /\ mounted
    /\ link = "open"
    /\ reason = "io server disconnect" => connectTimers < MaxConnectTimers
    /\ link' = IF reason = "io server disconnect" THEN "closed" ELSE "retrying"
    /\ subscribed' = Null
    /\ disconnectHandler(reason)
    /\ op' = [name |-> "disconnect", reason |-> reason,
              banner |-> (consecutiveFailuresRef > 3)]
    /\ UNCHANGED <<mounted, currentEventId, soundEnabled, soundMode, symphonySong, stats,
                   eventIncrement, sessionIncrement, currentBubbleMessage,
                   activeSessions, dashRefs, seqVars, ctxAvail, appVars, pureVars, fxStorage, serverVars, bubbleVars,
                   currentApiKey, consecutiveFailuresRef, attempts, reconnectOnSocket,
                   sinceConnect, unmounted, live>>

\* the 1 s timer of lines 718-722 fires
ConnectTimerFires ==
    /\ connectTimers > 0
    /\ connectTimers' = connectTimers - 1
    /\ link' = IF socketRef # Null /\ link = "closed" THEN "connecting" ELSE link
    /\ op' = [name |-> "connectTimer"]
    /\ UNCHANGED <<dashVars, seqVars, ctxAvail, appVars, pureVars, fxStorage, serverVars, bubbleVars, currentApiKey,
                   connected, consecutiveFailuresRef, reconnectTimeoutRef, attempts,
                   subscribed, reconnectOnSocket, sinceConnect, unmounted, live>>

\* the 2 s timer of lines 775-777 fires
BannerTimerFires ==
    /\ mounted
    /\ reconnectTimeoutRef = Some("pending")
    /\ reconnectTimeoutRef' = Some("cleared")
    /\ error' = "Reconnecting..."
    /\ op' = [name |-> "bannerTimer"]
    /\ UNCHANGED <<mounted, currentEventId, soundEnabled, soundMode, symphonySong, stats,
                   eventIncrement, sessionIncrement, currentBubbleMessage,
                   activeSessions, dashRefs, seqVars, ctxAvail, appVars, pureVars, fxStorage, serverVars, bubbleVars,
                   currentApiKey, connected, consecutiveFailuresRef, link, attempts,
                   subscribed, connectTimers, reconnectOnSocket, sinceConnect, unmounted, live>>

\* the 500 ms timer of the effect fires (lines 537-540)
InitialFetchFires ==
    /\ initialFetchTimeout # Null
    /\ Outstanding + 2 <= MaxFetches
    /\ fetches' = IssueAll(fetches,
          <<Request("stats", initialFetchTimeout[1].eventId, "live", FALSE),
            Request("sessions", initialFetchTimeout[1].eventId, "live", FALSE)>>)
    /\ initialFetchTimeout' = Null
    /\ op' = [name |-> "initialFetch"]
    /\ UNCHANGED <<dashState, messageCounterRef, socketRef, refreshVars,
                   statsIntervalRef, sessionsIntervalRef, retryTimers, seqVars, ctxAvail, appVars, pureVars, fxStorage, connVars, serverVars, bubbleVars>>

\* the 180 s interval fires (lines 544-546)
StatsIntervalFires ==
    /\ statsIntervalRef # Null
    /\ Outstanding < MaxFetches
    /\ fetches' = Issue(fetches, Request("stats", statsIntervalRef[1].eventId, "none", FALSE))
    /\ op' = [name |-> "statsInterval"]
    /\ UNCHANGED <<dashState, messageCounterRef, socketRef, refreshVars,
                   statsIntervalRef, sessionsIntervalRef, initialFetchTimeout,
                   retryTimers, seqVars, ctxAvail, appVars, pureVars, fxStorage, connVars, serverVars, bubbleVars>>

\* the 600 s interval fires (lines 550-552)
SessionsIntervalFires ==
    /\ sessionsIntervalRef # Null
    /\ Outstanding < MaxFetches
    /\ fetches' = Issue(fetches,
                        Request("sessions", sessionsIntervalRef[1].eventId, "none", FALSE))
    /\ op' = [name |-> "sessionsInterval"]
    /\ UNCHANGED <<dashState, messageCounterRef, socketRef, refreshVars,
                   statsIntervalRef, sessionsIntervalRef, initialFetchTimeout,
                   retryTimers, seqVars, ctxAvail, appVars, pureVars, fxStorage, connVars, serverVars, bubbleVars>>

\* setInterval: the callback has run and the next run is one period away
rearmInterval(t, period) == [t EXCEPT !.left = period]

\* the 180 s interval fires when its period has elapsed (lines 544-546)
StatsIntervalDue ==
    /\ statsIntervalRef # Null
    /\ statsIntervalRef[1].left = 0
    /\ Outstanding < MaxFetches
    /\ fetches' = Issue(fetches, Request("stats", statsIntervalRef[1].eventId, "none", FALSE))
    /\ statsIntervalRef' = Some(rearmInterval(statsIntervalRef[1], StatsPeriod))
    /\ op' = [name |-> "statsInterval"]
    /\ UNCHANGED <<dashState, messageCounterRef, socketRef, refreshVars,
                   sessionsIntervalRef, initialFetchTimeout,
                   retryTimers, seqVars, ctxAvail, appVars, pureVars, fxStorage, connVars, serverVars, bubbleVars>>

\* the 600 s interval fires when its period has elapsed (lines 550-552)
SessionsIntervalDue ==
    /\ sessionsIntervalRef # Null
    /\ sessionsIntervalRef[1].left = 0
    /\ Outstanding < MaxFetches
    /\ fetches' = Issue(fetches,
                        Request("sessions", sessionsIntervalRef[1].eventId, "none", FALSE))
    /\ sessionsIntervalRef' = Some(rearmInterval(sessionsIntervalRef[1], SessionsPeriod))
    /\ op' = [name |-> "sessionsInterval"]
    /\ UNCHANGED <<dashState, messageCounterRef, socketRef, refreshVars,
                   statsIntervalRef, initialFetchTimeout,
                   retryTimers, seqVars, ctxAvail, appVars, pureVars, fxStorage, connVars, serverVars, bubbleVars>>

\* d ms pass while both polls run; no poll is overdue
TickPoll(d) ==
    /\ statsIntervalRef # Null
    /\ sessionsIntervalRef # Null
    /\ statsIntervalRef[1].left >= d
    /\ sessionsIntervalRef[1].left >= d
    /\ statsIntervalRef' = Some([statsIntervalRef[1] EXCEPT !.left = @ - d])
    /\ sessionsIntervalRef' = Some([sessionsIntervalRef[1] EXCEPT !.left = @ - d])
    /\ op' = [name |-> "tick"]
    /\ UNCHANGED <<dashState, messageCounterRef, socketRef, refreshVars,
                   initialFetchTimeout, retryTimers, fetches, seqVars, ctxAvail, appVars, pureVars, fxStorage,
                   connVars, serverVars, bubbleVars>>

\* the callback of debounce timer i runs (lines 657-661 and 703-707)
refreshCallback(i) ==
    /\ i \in 1..Len(refreshTimers)
    /\ Outstanding + 2 <= MaxFetches
    /\ fetches' = IssueAll(fetches,
          <<Request("stats", refreshTimers[i].eventId, "none", FALSE),
            Request("sessions", refreshTimers[i].eventId, "none", FALSE)>>)
    /\ refreshTimers' = RemoveAt(refreshTimers, i)
    /\ pendingStatsRefreshRef' = Null
    /\ lastPush' = Null
    /\ op' = [name |-> "refresh"]
    /\ UNCHANGED <<dashState, messageCounterRef, socketRef, statsIntervalRef,
                   sessionsIntervalRef, initialFetchTimeout, retryTimers, seqVars,
                   ctxAvail, appVars, pureVars, fxStorage, connVars, serverVars, bubbleVars>>

\* a debounce timer fires, after a time the model does not measure
RefreshFires == \E i \in 1..Len(refreshTimers) : refreshCallback(i)

\* a debounce timer fires when its delay has elapsed
RefreshDue == \E i \in 1..Len(refreshTimers) : refreshTimers[i].left = 0 /\ refreshCallback(i)

\* d ms pass while a debounce timer is pending; no timer is overdue
TickRefresh(d) ==
    /\ refreshTimers # <<>>
    /\ \A j \in 1..Len(refreshTimers) : refreshTimers[j].left >= d
    /\ refreshTimers' = [j \in 1..Len(refreshTimers) |->
                            [refreshTimers[j] EXCEPT !.left = @ - d]]
    /\ lastPush' = IF lastPush = Null THEN Null
                   ELSE Some([lastPush[1] EXCEPT
                                 !.since = IF @ + d > lastPush[1].delay
                                           THEN lastPush[1].delay ELSE @ + d])
    /\ op' = [name |-> "tick"]
    /\ UNCHANGED <<dashState, messageCounterRef, socketRef, pendingStatsRefreshRef,
                   statsIntervalRef, sessionsIntervalRef, initialFetchTimeout,
                   retryTimers, fetches, seqVars, ctxAvail, appVars, pureVars, fxStorage, connVars, serverVars, bubbleVars>>

\* a 5 s retry timer fires (lines 499-502)
RetryFires(i) ==
    /\ i \in 1..Len(retryTimers)
    /\ retryTimers' = RemoveAt(retryTimers, i)
    /\ IF retryTimers[i].signal = "aborted"
       THEN UNCHANGED fetches
       ELSE /\ fetches' = Issue(fetches, Request("stats", retryTimers[i].eventId,
                                                 retryTimers[i].signal, FALSE))
    /\ op' = [name |-> "retry", issued |-> (retryTimers[i].signal # "aborted"),
              delay |-> retryTimers[i].delay]
    /\ UNCHANGED <<dashState, messageCounterRef, socketRef, refreshVars,
                   statsIntervalRef, sessionsIntervalRef, initialFetchTimeout, seqVars,
                   ctxAvail, appVars, pureVars, fxStorage, connVars, serverVars, bubbleVars>>

\* the last step applied a successful response of this kind with this body
AppliedBefore(name, data) ==
    /\ op.name = name
    /\ op.ok
    /\ op.data = Some(data)

FetchStatsSettled(i, ok, data) ==
    /\ mounted
    /\ fetchStatsSettled(i, ok, data)
    /\ op' = [name |-> "statsSettled", ok |-> ok, data |-> IF ok THEN Some(data) ELSE Null,
              counted |-> (eventIncrement > 0 /\ sessionIncrement > 0),
              again |-> (ok /\ AppliedBefore("statsSettled", data))]
    /\ UNCHANGED <<mounted, currentEventId, soundEnabled, soundMode, symphonySong,
                   currentBubbleMessage, activeSessions, messageCounterRef, socketRef,
                   refreshVars, statsIntervalRef, sessionsIntervalRef,
                   initialFetchTimeout, seqVars, ctxAvail, appVars, pureVars, fxStorage, connVars, serverVars, bubbleVars>>

\* the button of the error banner (line 977)
DismissError ==
    /\ mounted
    /\ error # ""
    /\ error' = ""
    /\ op' = [name |-> "dismissError"]
    /\ UNCHANGED <<mounted, currentEventId, soundEnabled, soundMode, symphonySong, stats,
                   eventIncrement, sessionIncrement, currentBubbleMessage,
                   activeSessions, dashRefs, seqVars, ctxAvail, appVars, pureVars,
                   fxStorage, connVars, serverVars, bubbleVars>>

FetchSessionsSettled(i, ok, data) ==
    /\ mounted
    /\ fetchActiveSessionsSettled(i, ok, data)
    /\ op' = [name |-> "sessionsSettled", ok |-> ok, data |-> IF ok THEN Some(data) ELSE Null,
              again |-> (ok /\ AppliedBefore("sessionsSettled", data)),
              shown |-> (activeSessions # <<>>)]
    /\ UNCHANGED <<mounted, currentEventId, soundEnabled, soundMode, symphonySong, stats,
                   eventIncrement, sessionIncrement, error, currentBubbleMessage,
                   messageCounterRef, socketRef, refreshVars,
                   statsIntervalRef, sessionsIntervalRef, initialFetchTimeout,
                   retryTimers, seqVars, ctxAvail, appVars, pureVars, fxStorage, connVars, serverVars, bubbleVars>>

\* a load started by the Dashboard's Symphony effect makes progress
DashPianoSettled(i, ok) ==
    /\ mounted
    /\ SeqPianoSettled(i, ok)

DashSongSettled(i, ok) ==
    /\ mounted
    /\ SeqSongSettled(i, ok)

\* payloads without bubble text
SilentPayloads == {d \in CheckinPayloads : d.message = ""}

\* payloads and lookup results that are not counted as event or session check-ins
UncountedPayloads ==
    {d \in CheckinPayloads : d.checkin_type = "none" /\ d.event_type = "checkin"}

UncountedBodies == {m \in MessageBodies : m.checkin_type = "none"}

\* check-in payloads without bubble text
CountedPayloads == {d \in SilentPayloads : d.event_type = "checkin"}

\* The sound path: push events, poke lookups, settings changes and song loads.
InitSound ==
    /\ PlayerInit
    /\ ParserIdle
    /\ AppSetUp
    /\ StorageInit
    /\ ctxAvail \in BOOLEAN
    /\ DashboardInit
    /\ BubbleInit
    /\ ServerInit
    /\ SocketInit
    /\ reconnectOnSocket = FALSE
    /\ op = [name |-> "start"]

\* every save of the settings panel names a song; a dashboard without a song
\* is among the initial states
NextSound ==
    \/ Mount
    \/ SocketConnects
    \/ \E data \in UncountedPayloads \cap SilentPayloads, pianoOk \in BOOLEAN :
          CheckinEvent(data, pianoOk)
    \/ \E e \in EventIds, n \in 0..2 : CheckinPoke(e, n)
    \/ \E i \in 1..Len(fetches), ok \in BOOLEAN, msg \in UncountedBodies, pianoOk \in BOOLEAN :
          LookupSettled(i, ok, msg, pianoOk)
    \/ \E e \in EventIds, se \in BOOLEAN, sm \in SoundModes, song \in DashSongs :
          SettingsUpdate(e, se, sm, song)
    \/ \E i \in 1..MaxInits, ok \in BOOLEAN : DashPianoSettled(i, ok)
    \/ \E i \in 1..MaxInits, ok \in BOOLEAN : DashSongSettled(i, ok)

SpecSound == InitSound /\ [][NextSound]_vars

\* The reconciliation path: push events, timers, stats and session-list
\* requests and event switches, with the sound settings left at Heartbeat.
InitStats ==
    /\ PlayerInit
    /\ ParserIdle
    /\ AppSetUp
    /\ StorageInit
    /\ ctxAvail = TRUE
    /\ DashboardInit
    /\ BubbleInit
    /\ ServerInit
    /\ SocketInit
    /\ reconnectOnSocket = FALSE
    /\ soundEnabled = TRUE
    /\ soundMode = "Heartbeat"
    /\ symphonySong = ""
    /\ op = [name |-> "start"]

\* the bodies a request can be answered with; a failed request has no body
\* that is read
Answers(ok, bodies) == IF ok THEN bodies ELSE {CHOOSE b \in bodies : TRUE}

NextStats ==
    \/ Mount
    \/ SocketConnects
    \/ \E data \in CountedPayloads : CheckinEvent(data, TRUE)
    \/ \E e \in EventIds \ {currentEventId} :
          SettingsUpdate(e, soundEnabled, soundMode, symphonySong)
    \/ InitialFetchFires
    \/ StatsIntervalFires
    \/ SessionsIntervalFires
    \/ RefreshFires
    \/ \E i \in 1..Len(retryTimers) : RetryFires(i)
    \/ \E i \in 1..Len(fetches), ok \in BOOLEAN :
          \E data \in Answers(ok, StatsBodies) : FetchStatsSettled(i, ok, data)
    \/ \E i \in 1..Len(fetches), ok \in BOOLEAN :
          \E data \in Answers(ok, SessionBodies) : FetchSessionsSettled(i, ok, data)

SpecStats == InitStats /\ [][NextStats]_vars

\* Requests that fail: the initial fetch and its retries, check-ins counted in
\* between, the banner dismissed, and a switch of event that aborts what is in
\* flight.
NextFail ==
    \/ Mount
    \/ SocketConnects
    \/ \E data \in CountedPayloads : CheckinEvent(data, TRUE)
    \/ \E e \in EventIds \ {currentEventId} :
          SettingsUpdate(e, soundEnabled, soundMode, symphonySong)
    \/ InitialFetchFires
    \/ \E i \in 1..Len(retryTimers) : RetryFires(i)
    \/ \E i \in 1..Len(fetches), ok \in BOOLEAN, data \in StatsBodies :
          FetchStatsSettled(i, ok, data)
    \/ \E i \in 1..Len(fetches), ok \in BOOLEAN, data \in SessionBodies :
          FetchSessionsSettled(i, ok, data)
    \/ DismissError

SpecFail == InitStats /\ [][NextFail]_vars

\* steps in which the model lets time pass under SpecDebounce
RefreshSteps == {1000, 2000}

\* The debounce of the push-triggered refresh, with time: pushes and pokes
\* without bubble text or counted check-in arrive at any moment.
NextDebounce ==
    \/ Mount
    \/ SocketConnects
    \/ \E data \in UncountedPayloads \cap SilentPayloads : CheckinEvent(data, TRUE)
    \/ \E e \in EventIds : CheckinPoke(e, 0)
    \/ \E e \in EventIds : SettingsUpdate(e, soundEnabled, soundMode, symphonySong)
    \/ \E d \in RefreshSteps : TickRefresh(d)
    \/ RefreshDue
    \/ \E i \in 1..Len(fetches), data \in StatsBodies : FetchStatsSettled(i, TRUE, data)
    \/ \E i \in 1..Len(fetches), data \in SessionBodies : FetchSessionsSettled(i, TRUE, data)

SpecDebounce == InitStats /\ [][NextDebounce]_vars

\* steps in which the model lets time pass under SpecPoll
PollSteps == {60000}

\* The two polls, with time: pushes without bubble text or counted check-in,
\* debounced refreshes, and fetches that succeed or fail at any moment.
NextPoll ==
    \/ Mount
    \/ SocketConnects
    \/ \E data \in UncountedPayloads \cap SilentPayloads : CheckinEvent(data, TRUE)
    \/ RefreshFires
    \/ \E d \in PollSteps : TickPoll(d)
    \/ StatsIntervalDue
    \/ SessionsIntervalDue
    \/ \E i \in 1..Len(retryTimers) : RetryFires(i)
    \/ \E i \in 1..Len(fetches), ok \in BOOLEAN, data \in StatsBodies :
          FetchStatsSettled(i, ok, data)
    \/ \E i \in 1..Len(fetches), ok \in BOOLEAN, data \in SessionBodies :
          FetchSessionsSettled(i, ok, data)

SpecPoll == InitStats /\ [][NextPoll]_vars

\* The socket: connection attempts, losses, settings changes and reset, with
\* either kind of socket.io-client.
InitConn ==
    /\ PlayerInit
    /\ ParserIdle
    /\ AppSetUp
    /\ StorageInit
    /\ ctxAvail = TRUE
    /\ DashboardInit
    /\ BubbleInit
    /\ ServerInit
    /\ SocketInit
    /\ reconnectOnSocket \in BOOLEAN
    /\ soundEnabled = TRUE
    /\ soundMode = "Heartbeat"
    /\ symphonySong = ""
    /\ op = [name |-> "start"]

DisconnectReasons == {"transport close", "io server disconnect"}

NextConn ==
    \/ Mount
    \/ SocketConnects
    \/ SocketConnectFails
    \/ \E reason \in DisconnectReasons : SocketDisconnected(reason)
    \/ ConnectTimerFires
    \/ BannerTimerFires
    \/ \E k \in ApiKeys, e \in EventIds :
          handleSettingsUpdate(k, e, soundEnabled, soundMode, symphonySong)
    \/ Reset

SpecConn == InitConn /\ [][NextConn]_vars

\* where the start page put the key before setup was completed (part_005 lines
\* 231-237): in sessionStorage, in localStorage ('remember'), or in an earlier
\* browser session whose sessionStorage is gone
KeyPlaces == {"session", "local", "gone"}

\* The Dashboard from its first render to 'Disconnect and reset', with saves of
\* the settings panel and connection trouble before the reset.
InitReset ==
    /\ PlayerInit
    /\ ParserIdle
    /\ app = [AppState EXCEPT !.isSetup = TRUE, !.apiKey = "key-1", !.eventId = "evt-1",
                              !.eventName = "Expo", !.webhookBaseUrl = API_BASE_URL]
    /\ startPage = StartPageState
    /\ setup = SetupState("")
    /\ \E place \in KeyPlaces :
          /\ localStorage = [i \in LocalItems |->
                               CASE i = "eventmobi_api_key" -> "key-1"
                                 [] i = "eventmobi_event_id" -> "evt-1"
                                 [] i = "eventmobi_event_name" -> "Expo"
                                 [] i = "eventmobi_webhook_base_url" -> API_BASE_URL
                                 [] OTHER -> IF place = "local" THEN "key-1" ELSE NoItem]
          /\ sessionStorage = [i \in SessionItems |->
                                 IF place = "session" THEN "key-1" ELSE NoItem]
    /\ StorageInit
    /\ ctxAvail = TRUE
    /\ DashboardInit
    /\ BubbleInit
    /\ ServerInit
    /\ SocketInit
    /\ reconnectOnSocket = FALSE
    /\ soundEnabled = TRUE
    /\ soundMode = "Heartbeat"
    /\ symphonySong = ""
    /\ op = [name |-> "start"]

NextReset ==
    \/ Mount
    \/ SocketConnects
    \/ SocketConnectFails
    \/ SocketDisconnected("transport close")
    \/ \E k \in ApiKeys, e \in EventIds :
          handleSettingsUpdate(k, e, soundEnabled, soundMode, symphonySong)
    \/ Reset

SpecReset == InitReset /\ [][NextReset]_vars

\* the server is reachable: a socket that keeps trying (reconnectionAttempts:
\* Infinity, line 577) gets its connection in the end
FairConn ==
    /\ SpecConn
    /\ WF_vars(SocketConnects)

----------------------------------------------------------------------------
(* The Dashboard together with the server that counts the check-ins: a     *)
(* check-in is counted at once by GET /stats and announced by a            *)
(* checkin_event push that reaches the client some time later.             *)

\* an attendee checks in to the event
ServerCheckin ==
    /\ serverCheckins < MaxCheckins
    /\ serverCheckins' = serverCheckins + 1
    /\ pushes' = pushes + 1
    /\ op' = [name |-> "checkin"]
    /\ UNCHANGED <<seqVars, ctxAvail, appVars, pureVars, fxStorage, connVars, dashVars, bubbleVars>>

\* the push of an event check-in, without bubble text
EventCheckinPush == [message |-> "", event_type |-> "checkin", checkin_type |-> "event"]

\* the push of one check-in reaches the client
PushDelivered ==
    /\ pushes > 0
    /\ pushes' = pushes - 1
    /\ checkin_event(EventCheckinPush, TRUE)
    /\ UNCHANGED serverCheckins

\* the body GET /stats answers with now
CurrentStats == [event_checkins |-> serverCheckins, session_checkins |-> 0]

\* a stats request is answered with the current count, or fails
StatsAnswered(i, ok) == FetchStatsSettled(i, ok, CurrentStats)

\* Pokes that carry a resource id, for the subscribed event and for another
\* one, with the lookups they start, the debounce timer and time, in Symphony
\* mode.
InitPoke ==
    /\ InitSound
    /\ ctxAvail
    /\ soundEnabled
    /\ soundMode = "Symphony"
    /\ symphonySong \in DashSongs

NextPoke ==
    \/ Mount
    \/ SocketConnects
    \/ \E e \in EventIds : CheckinPoke(e, 1)
    \/ \E i \in 1..Len(fetches), msg \in MessageBodies \ UncountedBodies :
          LookupSettled(i, TRUE, msg, TRUE)
    \/ \E i \in 1..MaxInits : DashPianoSettled(i, TRUE)
    \/ \E i \in 1..MaxInits : DashSongSettled(i, TRUE)
    \/ TickRefresh(1000)
    \/ RefreshDue
    \/ \E i \in 1..Len(fetches) : FetchStatsSettled(i, TRUE, CurrentStats)
    \/ \E i \in 1..Len(fetches) : FetchSessionsSettled(i, TRUE, <<>>)

SpecPoke == InitPoke /\ [][NextPoke]_vars

MaxIds == 3     \* resource ids carried by one poke

\* Pokes with no, one or several resource ids, and lookups that answer with a
\* message, without one, or fail, in Symphony mode.
NextMany ==
    \/ Mount
    \/ SocketConnects
    \/ \E n \in 0..MaxIds : CheckinPoke(currentEventId, n)
    \/ \E i \in 1..Len(fetches), ok \in BOOLEAN, msg \in MessageBodies :
          LookupSettled(i, ok, msg, TRUE)
    \/ \E i \in 1..MaxInits : DashPianoSettled(i, TRUE)
    \/ \E i \in 1..MaxInits : DashSongSettled(i, TRUE)
    \/ RefreshFires
    \/ \E i \in 1..Len(fetches) : FetchStatsSettled(i, TRUE, CurrentStats)
    \/ \E i \in 1..Len(fetches) : FetchSessionsSettled(i, TRUE, <<>>)

SpecMany == InitPoke /\ [][NextMany]_vars

\* bodies of the checkin-message lookup that name their event type
TypedBodies ==
    [message : {"", "hello"}, checkin_type : {"event", "session", "none"},
     event_type : {"checkin", "scan"}]

\* Counting: full pushes and poke lookups of every type, and snapshots that
\* reset the counters.
NextTally ==
    \/ Mount
    \/ SocketConnects
    \/ \E data \in CheckinPayloads : CheckinEvent(data, TRUE)
    \/ CheckinPoke(currentEventId, 1)
    \/ \E i \in 1..Len(fetches), ok \in BOOLEAN, msg \in MessageBodies \cup TypedBodies :
          LookupSettled(i, ok, msg, TRUE)
    \/ RefreshFires
    \/ \E i \in 1..Len(fetches) : FetchStatsSettled(i, TRUE, CurrentStats)
    \/ \E i \in 1..Len(fetches) : FetchSessionsSettled(i, TRUE, <<>>)

SpecTally == InitStats /\ [][NextTally]_vars

\* Message ids: full pushes and poke lookups, with the socket lost, re-created
\* for another key or event, and connected again in between.
NextIds ==
    \/ Mount
    \/ SocketConnects
    \/ SocketDisconnected("transport close")
    \/ \E e \in EventIds \ {currentEventId} :
          SettingsUpdate(e, soundEnabled, soundMode, symphonySong)
    \/ \E data \in CheckinPayloads : CheckinEvent(data, TRUE)
    \/ CheckinPoke(currentEventId, 1)
    \/ \E i \in 1..Len(fetches), ok \in BOOLEAN, msg \in MessageBodies :
          LookupSettled(i, ok, msg, TRUE)

SpecIds == InitStats /\ [][NextIds]_vars

NextCount ==
    \/ Mount
    \/ SocketConnects
    \/ ServerCheckin
    \/ PushDelivered
    \/ InitialFetchFires
    \/ StatsIntervalFires
    \/ RefreshFires
    \/ \E i \in 1..Len(retryTimers) : RetryFires(i)
    \/ \E i \in 1..Len(fetches), ok \in BOOLEAN : StatsAnswered(i, ok)
    \/ \E i \in 1..Len(fetches), ok \in BOOLEAN, data \in SessionBodies :
          FetchSessionsSettled(i, ok, data)

SpecCount == InitStats /\ [][NextCount]_vars

----------------------------------------------------------------------------
(* BubbleAnimation (BubbleAnimation.js) *)

MaxShown == 14      \* messages pushed through the display under SpecCap

Min(a, b) == IF a < b THEN a ELSE b

Timer(kind, id, left) == [kind |-> kind, id |-> id, left |-> left]

\* setTimeout of line 157
lifetimeTimer_Late(id) == Timer("life", id, 2 * BUBBLE_LIFETIME)

lifetimeTimer(id) == Timer("life", id, BUBBLE_LIFETIME)

\* the effect on [message] (lines 14-35), run with the committed prop
messageEffect(msg) ==
    IF msg # Null /\ msg[1].text # ""
    THEN /\ messageQueueRef' = Append(messageQueueRef,
                [message |-> msg[1].text, id |-> msg[1].id, eventType |-> msg[1].event_type])
         /\ bubbleTimers' = Append(bubbleTimers, Timer("process", 0, BatchDelay))
         /\ enqueued' = Append(enqueued, [id |-> msg[1].id, duringDrain |-> processingRef])
    ELSE UNCHANGED <<messageQueueRef, bubbleTimers, enqueued>>

\* lines 146-153: the bubble list after one more bubble
capBubbles_KeepOldest(list) ==
    IF Len(list) > MAX_BUBBLES THEN SubSeq(list, 1, MAX_BUBBLES) ELSE list

capBubbles(list) ==
    IF Len(list) > MAX_BUBBLES
    THEN SubSeq(list, Len(list) - MAX_BUBBLES + 1, Len(list))
    ELSE list

\* playPopSound (lines 79-117); the component's soundEnabled prop is
\* soundEnabled && soundMode !== 'Symphony' (Dashboard.js line 894)
playPopSound ==
    IF ~(soundEnabled /\ soundMode # "Symphony")
    THEN UNCHANGED <<audioContextRef, windowCtx, contexts>>
    ELSE /\ audioContextRef' = IF audioContextRef # "null" THEN audioContextRef
                                ELSE getOrCreateAudioContext
         /\ acquire(audioContextRef = "null")

\* addBubble (lines 119-163) for the message taken from the queue; `pending`
\* are the timers that stay pending.  The bubble id (Date.now() +
\* Math.random()) is fresh: the number of the addBubble call.
addBubble(msgData, pending) ==
    LET id == Len(created) + 1
    IN  /\ bubbles' = capBubbles(Append(bubbles,
                          [id |-> id, message |-> msgData.message, age |-> 0]))
        /\ bubbleTimers' = pending \o <<lifetimeTimer(id), Timer("next", 0, BubbleStagger)>>
        /\ created' = Append(created, msgData.id)
        /\ sinceAdd' = 0
        /\ playPopSound

\* line 50, Array.prototype.shift: the item taken and the queue left behind
shift_Pop(queue) ==
    [item |-> queue[Len(queue)], rest |-> SubSeq(queue, 1, Len(queue) - 1)]

shift(queue) == [item |-> Head(queue), rest |-> Tail(queue)]

\* processNext (lines 48-58)
processNext(pending) ==
    IF Len(messageQueueRef) > 0
    THEN /\ messageQueueRef' = shift(messageQueueRef).rest
         /\ addBubble(shift(messageQueueRef).item, pending)
         /\ processingRef' = TRUE
    ELSE /\ processingRef' = FALSE
         /\ bubbleTimers' = pending
         /\ UNCHANGED <<messageQueueRef, bubbles, created, sinceAdd, audioContextRef,
                        windowCtx, contexts>>

\* line 38
alreadyProcessing_Never == FALSE

alreadyProcessing == processingRef

\* processMessageQueue (lines 37-62)
processMessageQueue(pending) ==
    IF alreadyProcessing \/ Len(messageQueueRef) = 0
    THEN /\ bubbleTimers' = pending
         /\ UNCHANGED <<messageQueueRef, processingRef, bubbles, created, sinceAdd,
                        audioContextRef, windowCtx, contexts>>
    ELSE processNext(pending)

\* a timer that is due, and the first of those by creation order
Due(i) ==
    /\ i \in 1..Len(bubbleTimers)
    /\ bubbleTimers[i].left = 0
    /\ \A j \in 1..(i - 1) : bubbleTimers[j].left > 0

\* the Dashboard has state that BubbleAnimation has not been rendered with
RenderPending == currentBubbleMessage # renderedMessage

\* React commits the Dashboard's pending state: BubbleAnimation receives the
\* current message as its prop and its effect runs (Dashboard.js lines 890-896)
Render ==
    /\ mounted
    /\ RenderPending
    /\ renderedMessage' = currentBubbleMessage
    /\ messageEffect(currentBubbleMessage)
    /\ op' = [name |-> "render"]
    /\ UNCHANGED <<processingRef, bubbles, created, sinceAdd, audioContextRef, seqVars, ctxAvail, appVars, pureVars, fxStorage, connVars, serverVars, dashVars>>

\* the timer of line 30 fires
ProcessTimerFires(i) ==
    /\ Due(i)
    /\ bubbleTimers[i].kind = "process"
    /\ processMessageQueue(RemoveAt(bubbleTimers, i))
    /\ op' = [name |-> "processMessageQueue"]
    /\ UNCHANGED <<renderedMessage, enqueued, playerState, ctxAvail, appVars, pureVars, fxStorage, connVars, serverVars, dashVars>>

\* the timer of line 54 fires
NextTimerFires(i) ==
    /\ Due(i)
    /\ bubbleTimers[i].kind = "next"
    /\ processNext(RemoveAt(bubbleTimers, i))
    /\ op' = [name |-> "processNext"]
    /\ UNCHANGED <<renderedMessage, enqueued, playerState, ctxAvail, appVars, pureVars, fxStorage, connVars, serverVars, dashVars>>

\* the timer of line 157 fires: the bubble is filtered out and
\* handleBubbleComplete (Dashboard.js lines 884-886) clears the message
LifetimeFires(i) ==
    /\ Due(i)
    /\ bubbleTimers[i].kind = "life"
    /\ bubbles' = SelectSeq(bubbles, LAMBDA b : b.id # bubbleTimers[i].id)
    /\ bubbleTimers' = RemoveAt(bubbleTimers, i)
    /\ currentBubbleMessage' = Null
    /\ op' = [name |-> "lifetime", id |-> bubbleTimers[i].id]
    /\ UNCHANGED <<renderedMessage, messageQueueRef, processingRef, enqueued, created,
                   sinceAdd, audioContextRef, seqVars, ctxAvail, appVars, pureVars, fxStorage, connVars, serverVars, mounted, currentEventId, soundEnabled,
                   soundMode, symphonySong, stats, eventIncrement, sessionIncrement,
                   error, activeSessions, dashRefs>>

\* time until the next timer is due
NextDeadline ==
    LET lefts == {bubbleTimers[j].left : j \in 1..Len(bubbleTimers)}
    IN  CHOOSE m \in lefts : \A x \in lefts : m <= x

\* d ms pass: no timer is due, and pending renders have been committed
Tick(d) ==
    /\ bubbleTimers # <<>>
    /\ ~RenderPending
    /\ d > 0
    /\ d <= NextDeadline
    /\ bubbleTimers' = [j \in 1..Len(bubbleTimers) |->
                           [bubbleTimers[j] EXCEPT !.left = @ - d]]
    /\ bubbles' = [j \in 1..Len(bubbles) |-> [bubbles[j] EXCEPT !.age = @ + d]]
    /\ sinceAdd' = Min(sinceAdd + d, BubbleStagger)
    /\ op' = [name |-> "tick"]
    /\ UNCHANGED <<renderedMessage, messageQueueRef, processingRef, enqueued, created,
                   audioContextRef, seqVars, ctxAvail, appVars, pureVars, fxStorage, connVars, serverVars, dashVars>>

\* Push events shown as bubbles.  Events arrive at any multiple of BatchDelay
\* while the drain loop has timers pending; otherwise at the next timer
\* deadline or BubbleStagger ms ahead of it.
InitBubble ==
    /\ PlayerInit
    /\ ParserIdle
    /\ AppSetUp
    /\ StorageInit
    /\ ctxAvail = TRUE
    /\ DashboardInit
    /\ soundEnabled = TRUE
    /\ soundMode = "Heartbeat"
    /\ symphonySong = ""
    /\ BubbleInit
    /\ ServerInit
    /\ SocketInit
    /\ reconnectOnSocket = FALSE
    /\ op = [name |-> "start"]

ShortTimerPending ==
    \E j \in 1..Len(bubbleTimers) : bubbleTimers[j].kind # "life"

TimerSteps ==
    \/ \E i \in 1..Len(bubbleTimers) : ProcessTimerFires(i)
    \/ \E i \in 1..Len(bubbleTimers) : NextTimerFires(i)
    \/ \E i \in 1..Len(bubbleTimers) : LifetimeFires(i)

NextBubble ==
    \/ Mount
    \/ SocketConnects
    \/ \E data \in UncountedPayloads : CheckinEvent(data, TRUE)
    \/ Render
    \/ \E i \in 1..Len(bubbleTimers) : ProcessTimerFires(i)
    \/ \E i \in 1..Len(bubbleTimers) : NextTimerFires(i)
    \/ \E i \in 1..Len(bubbleTimers) : LifetimeFires(i)
    \/ Tick(NextDeadline)
    \/ ShortTimerPending /\ Tick(BatchDelay)
    \/ ~ShortTimerPending /\ Tick(NextDeadline - BubbleStagger)

SpecBubble == InitBubble /\ [][NextBubble]_vars

\* timers fire when due, time passes, and React commits pending renders
FairBubble ==
    /\ SpecBubble
    /\ WF_vars(Render)
    /\ WF_vars(TimerSteps)
    /\ WF_vars(Tick(NextDeadline))

\* A long run of push events, each rendered before the next one arrives
\* (the order a synchronously rendering React root produces).  Events arrive
\* in one burst, before the drain loop creates its first bubble.
CapCheckinEvent(data) ==
    /\ ~RenderPending
    /\ created = <<>>
    /\ messageCounterRef < MaxShown
    /\ checkin_event(data, TRUE)
    /\ UNCHANGED serverVars

NextCap ==
    \/ Mount
    \/ SocketConnects
    \/ \E data \in UncountedPayloads : CapCheckinEvent(data)
    \/ Render
    \/ \E i \in 1..Len(bubbleTimers) : ProcessTimerFires(i)
    \/ \E i \in 1..Len(bubbleTimers) : NextTimerFires(i)
    \/ \E i \in 1..Len(bubbleTimers) : LifetimeFires(i)
    \/ Tick(NextDeadline)

SpecCap == InitBubble /\ [][NextCap]_vars

----------------------------------------------------------------------------
(* The audio context shared by the three components *)

\* the context unlockAudio ends up with (SettingsPanel.jsx lines 61-67)
unlockAudioCtx == IF windowCtx = "null" \/ IsClosed(windowCtx) THEN NewCtx ELSE windowCtx

\* the sound checkbox of the settings panel is ticked (SettingsPanel.jsx
\* lines 356-361): unlockAudio (lines 59-83)
UnlockAudio ==
    /\ mounted
    /\ windowCtx' = IF unlockAudioCtx # "null" THEN unlockAudioCtx ELSE windowCtx
    /\ contexts' = IF unlockAudioCtx \notin Constructed \cup {"null"}
                    THEN contexts + 1 ELSE contexts
    /\ op' = [name |-> "unlockAudio", ctx |-> unlockAudioCtx]
    /\ UNCHANGED <<playerState, ctxAvail, appVars, pureVars, fxStorage, dashVars, bubbleVars, serverVars, connVars>>

\* Pushes shown as bubbles and played as notes while the sound mode changes;
\* sound is enabled and a song is selected
InitAudio ==
    /\ InitSound
    /\ soundEnabled
    /\ symphonySong \in DashSongs

NextAudio ==
    \/ Mount
    \/ SocketConnects
    \/ \E data \in UncountedPayloads \ SilentPayloads :
          messageCounterRef < MaxAudioPushes /\ CheckinEvent(data, TRUE)
    \/ Render
    \/ \E i \in 1..Len(bubbleTimers) : ProcessTimerFires(i)
    \/ \E i \in 1..Len(bubbleTimers) : NextTimerFires(i)
    \/ \E i \in 1..Len(bubbleTimers) : LifetimeFires(i)
    \/ Tick(NextDeadline)
    \/ \E sm \in SoundModes \ {soundMode} :
          SettingsUpdate(currentEventId, soundEnabled, sm, symphonySong)
    \/ \E i \in 1..MaxInits : DashPianoSettled(i, TRUE)
    \/ \E i \in 1..MaxInits : DashSongSettled(i, TRUE)
    \/ UnlockAudio

SpecAudio == InitAudio /\ [][NextAudio]_vars

\* no check-in has produced a message or a note yet, and none is being looked up
NoCheckinYet ==
    /\ messageCounterRef = 0
    /\ played = <<>>
    /\ SelectSeq(fetches, IsLookup) = <<>>

\* One check-in from its arrival to its bubble: pushed in full or as a poke
\* that is looked up, with the sound settings saved at any moment in between.
NextKinds ==
    \/ Mount
    \/ SocketConnects
    \/ \E i \in 1..MaxInits : DashPianoSettled(i, TRUE)
    \/ \E i \in 1..MaxInits : DashSongSettled(i, TRUE)
    \/ \E data \in UncountedPayloads \ SilentPayloads :
          NoCheckinYet /\ CheckinEvent(data, TRUE)
    \/ NoCheckinYet /\ CheckinPoke(currentEventId, 1)
    \/ \E i \in 1..Len(fetches), msg \in UncountedBodies :
          LookupSettled(i, TRUE, msg, TRUE)
    \/ \E se \in BOOLEAN, sm \in SoundModes :
          /\ <<se, sm>> # <<soundEnabled, soundMode>>
          /\ SettingsUpdate(currentEventId, se, sm, symphonySong)
    \/ Render
    \/ \E i \in 1..Len(bubbleTimers) : ProcessTimerFires(i)
    \/ \E i \in 1..Len(bubbleTimers) : NextTimerFires(i)
    \/ \E i \in 1..Len(bubbleTimers) : LifetimeFires(i)
    \/ Tick(NextDeadline)

SpecKinds == InitAudio /\ [][NextKinds]_vars

----------------------------------------------------------------------------
(* Claims about the note sequencer (checked under SpecSeq) *)

\* C1: for a loaded song with n > 0 notes, after k playNextNote calls with no
\* load in between the cursor equals k mod n, and the k-th call selected (and
\* sounded) notes[(k-1) mod n]: the sequence wraps to the first note.
C1_CursorIsCallsModLen ==
    Len(notes) > 0 =>
        /\ cursor = Len(played) % Len(notes)
        /\ \A k \in 1..Len(played) :
              /\ played[k].idx = (k - 1) % Len(notes)
              /\ played[k].midi = notes[((k - 1) % Len(notes)) + 1].midi

\* four notes, five calls: the fifth call wrapped to the first note
C1_Witness ==
    /\ Len(notes) = 4
    /\ Len(played) = 5
    /\ played[4].idx = 3
    /\ played[5].idx = 0
    /\ played[5].midi = notes[1].midi
    /\ cursor = 1

\* C2: a successful init replaces the note sequence by the notes of the new
\* song and resets the cursor to 0, so the first playNextNote after the load
\* plays the first note of the new song whatever the cursor was before.
C2_LoadReplacesNotesAndResetsCursor ==
    /\ (op.name = "songSettled" /\ op.ok) =>
          /\ notes = parseAbcToNotes(AbcText(op.file))
          /\ currentSong = op.file
          /\ cursor = 0
    /\ (Len(notes) > 0 /\ Len(played) >= 1) =>
          /\ played[1].idx = 0
          /\ played[1].midi = parseAbcToNotes(AbcText(currentSong))[1].midi

\* a new song has just been loaded while the previous one stood at a
\* non-zero cursor
C2_Witness ==
    /\ op.name = "songSettled"
    /\ op.ok
    /\ op.cursorBefore > 0
    /\ op.file = "two.abc"
    /\ Len(notes) = 2
    /\ cursor = 0

ZeroNoteInit ==
    \/ op.name = "songSettled" /\ ~op.ok
    \/ op.name = "songSettled" /\ op.ok /\ parseAbcSimple(AbcText(op.file)) = <<>>
    \/ op.name = "init" /\ op.failed

\* C3: when init yields zero notes (unparseable text or a failed load) the
\* sequencer holds an empty note list and cursor 0, and a playNextNote on the
\* empty list starts no sound, changes no sequencer state and does not throw.
C3_ZeroNotesIsSilent ==
    /\ [](ZeroNoteInit => (notes = <<>> /\ cursor = 0))
    /\ [][(Len(notes) = 0 /\ op'.name = "playNextNote") => UNCHANGED seqVars]_vars

\* a playNextNote call made after a song without any note was loaded
C3_Witness ==
    /\ op.name = "playNextNote"
    /\ currentSong = "rests.abc"
    /\ notes = <<>>
    /\ cursor = 0
    /\ played = <<>>

----------------------------------------------------------------------------
(* Claims about the Dashboard's sound path (checked under SpecSound) *)

NoteRequested == Len(played') = Len(played) + 1

\* C4: with sound enabled and sound mode Symphony each check-in event advances
\* the sequencer exactly once within its handler (cursor + 1 mod n); with
\* sound disabled or mode Heartbeat the sequencer is never advanced.
C4_OneNotePerCheckinOnlyInSymphony ==
    [][/\ (op'.name = "checkin_event" /\ soundEnabled /\ soundMode = "Symphony"
              /\ Len(notes) > 0)
          => (NoteRequested /\ cursor' = (cursor + 1) % Len(notes))
       /\ (~soundEnabled \/ soundMode # "Symphony") => ~NoteRequested]_vars

----------------------------------------------------------------------------
(* Claims about the bubble display (checked under SpecBubble, FairBubble   *)
(* and SpecCap)                                                            *)

Queued(m) == Cardinality({k \in 1..Len(enqueued) : enqueued[k].id = m})

AwaitingRender(m) ==
    /\ RenderPending
    /\ currentBubbleMessage # Null
    /\ currentBubbleMessage[1].id = m

\* C5: every push notification with message text is appended to the bubble
\* queue exactly once, also when several arrive before the component
\* re-renders: each accepted message is either the one waiting for the next
\* render or has been queued exactly once.
C5_EveryMessageQueuedOnce ==
    \A m \in 1..messageCounterRef :
        IF AwaitingRender(m) THEN Queued(m) = 0 ELSE Queued(m) = 1

EnqueuedIds == [k \in 1..Len(enqueued) |-> enqueued[k].id]

QueueIds == [k \in 1..Len(messageQueueRef) |-> messageQueueRef[k].id]

\* C6: bubbles are created in the order the messages were enqueued: the
\* messages handed to addBubble followed by those still queued are exactly
\* the enqueued messages, in order, none skipped and none twice; this
\* includes messages enqueued while a drain loop is running.
C6_BubblesInEnqueueOrder == EnqueuedIds = created \o QueueIds

\* the second message was enqueued while the drain loop ran and became the
\* second bubble
C6_Witness ==
    /\ Len(created) >= 2
    /\ enqueued[2].duringDrain
    /\ created[2] = enqueued[2].id
    /\ created[1] = enqueued[1].id

NextTimerCount ==
    Cardinality({j \in 1..Len(bubbleTimers) : bubbleTimers[j].kind = "next"})

\* C7: at most one drain loop is active at a time; it takes one message per
\* step, never less than BubbleStagger (100 ms) after the previous bubble,
\* never creates two bubbles in one step, and stops only on an empty queue.
C7_SingleDrainLoop ==
    /\ [](NextTimerCount <= 1 /\ (processingRef <=> NextTimerCount = 1))
    /\ [][Len(created') <= Len(created) + 1]_vars
    /\ [][Len(created') > Len(created) => sinceAdd = BubbleStagger]_vars
    /\ [][(processingRef /\ ~processingRef')
             => (messageQueueRef = <<>> /\ messageQueueRef' = <<>>)]_vars

\* processMessageQueue was called 50 ms after a bubble, while the loop was
\* running and a message was waiting, and created nothing
C7_Witness ==
    /\ op.name = "processMessageQueue"
    /\ processingRef
    /\ messageQueueRef # <<>>
    /\ sinceAdd = BatchDelay
    /\ Len(created) = 1

\* C8: the number of visible bubbles never exceeds MAX_BUBBLES (12); adding a
\* bubble to a full display evicts exactly the oldest one and keeps the new.
C8_AtMostMaxBubbles ==
    /\ [](Len(bubbles) <= MAX_BUBBLES)
    /\ [][(Len(created') > Len(created) /\ Len(bubbles) = MAX_BUBBLES) =>
             /\ Len(bubbles') = MAX_BUBBLES
             /\ \A k \in 1..(MAX_BUBBLES - 1) : bubbles'[k] = bubbles[k + 1]
             /\ bubbles'[MAX_BUBBLES].id = Len(created')]_vars

\* the thirteenth bubble has replaced the first
C8_Witness ==
    /\ op.name = "processNext"
    /\ Len(created) = MAX_BUBBLES + 1
    /\ Len(bubbles) = MAX_BUBBLES
    /\ bubbles[1].id = 2
    /\ bubbles[MAX_BUBBLES].id = MAX_BUBBLES + 1

\* C9: every bubble is removed no later than BUBBLE_LIFETIME (30 s) after
\* its creation, by its own timer and whether or not a drain loop is
\* running; once messages stop arriving the display becomes empty for good.
C9_BubblesExpire ==
    /\ [](\A k \in 1..Len(bubbles) : bubbles[k].age <= BUBBLE_LIFETIME)
    /\ [][op'.name = "lifetime" =>
             /\ \A k \in 1..Len(bubbles) :
                   bubbles[k].id = op'.id => bubbles[k].age = BUBBLE_LIFETIME
             /\ \A k \in 1..Len(bubbles') : bubbles'[k].id # op'.id]_vars
    /\ <>[](bubbles = <<>>)

\* a bubble has just been removed by its timer while a drain loop is running
C9_Witness ==
    /\ op.name = "lifetime"
    /\ processingRef
    /\ Len(created) >= 2
    /\ \A k \in 1..Len(bubbles) : bubbles[k].id # op.id
    /\ bubbles # <<>>

----------------------------------------------------------------------------
(* Claims about stats reconciliation (checked under SpecStats) *)

\* C10: when a successful stats response is applied, the snapshot is
\* installed and eventIncrement and sessionIncrement are both exactly 0 in
\* the same update.
C10_SnapshotResetsIncrements ==
    (op.name = "statsSettled" /\ op.ok) =>
        /\ stats = op.data[1]
        /\ eventIncrement = 0
        /\ sessionIncrement = 0

\* a snapshot was applied while both increments were above zero
C10_Witness ==
    /\ op.name = "statsSettled"
    /\ op.ok
    /\ op.counted
    /\ stats = op.data[1]
    /\ eventIncrement = 0
    /\ sessionIncrement = 0

----------------------------------------------------------------------------
(* Claims about counting (checked under SpecCount and SpecStats) *)

\* C11: for every interleaving of push events and stats responses the
\* displayed event check-in count (snapshot value + increment) never exceeds
\* the number of check-ins that have occurred: no check-in is counted twice.
C11_NeverCountedTwice ==
    stats.event_checkins + eventIncrement <= serverCheckins

\* what a reconciliation fetch may change on the client
Reconciled == <<stats, eventIncrement, sessionIncrement, error, activeSessions>>

\* this step applies a successful response of this kind whose body is the
\* one the last step applied
AppliedAgain(name) ==
    /\ op'.name = name
    /\ op'.again

\* C12: reconciliation is idempotent: when a successful stats response (or a
\* successful session-list response) is applied a second time with the same
\* body, the stats, the session list, the banner and the increments are exactly
\* as the first application left them, with both increments 0 after a stats
\* response.
C12_ReconciliationIdempotent ==
    [][/\ AppliedAgain("statsSettled") =>
           /\ Reconciled' = Reconciled
           /\ eventIncrement' = 0
           /\ sessionIncrement' = 0
       /\ AppliedAgain("sessionsSettled") => Reconciled' = Reconciled]_vars

\* a non-empty session list has just been applied for the second time in a row
C12_Witness ==
    /\ op.name = "sessionsSettled"
    /\ op.again
    /\ activeSessions # <<>>

----------------------------------------------------------------------------
(* Claims about the debounced refresh (checked under SpecDebounce) *)

\* the step leaves exactly one debounce timer, with its whole delay ahead
ArmedAnew(delay) ==
    /\ Len(refreshTimers') = 1
    /\ refreshTimers'[1].left = delay

\* the refresh fires one window after the last push that armed it, and leaves
\* no timer behind
FiresOnceAfterWindow ==
    op'.name = "refresh" =>
        /\ lastPush # Null
        /\ lastPush[1].since = lastPush[1].delay
        /\ refreshTimers' = <<>>

\* C13 as stated: at most one push-triggered refresh timer is pending; every
\* checkin_event and every checkin_poke that arrives while the timer is pending
\* cancels it and arms it anew, and the refresh fires once, one window after
\* the last event.
C13_EveryPushRearms ==
    [][/\ Len(refreshTimers') <= 1
       /\ (op'.name = "checkin_event" /\ refreshTimers # <<>>)
              => ArmedAnew(EventRefreshDelay)
       /\ (op'.name = "checkin_poke" /\ refreshTimers # <<>>)
              => ArmedAnew(PokeRefreshDelay)
       /\ FiresOnceAfterWindow]_vars

\* C13 amended: at most one push-triggered refresh timer is pending; every
\* checkin_event, and every checkin_poke that names the subscribed event,
\* cancels the pending timer and arms it anew with the whole window (10 s or
\* 3 s), and the refresh fires once, one window after the last such event.
C13_HandledPushRearms ==
    [][/\ Len(refreshTimers') <= 1
       /\ op'.name = "checkin_event" => ArmedAnew(EventRefreshDelay)
       /\ (op'.name = "checkin_poke" /\ op'.matched) => ArmedAnew(PokeRefreshDelay)
       /\ FiresOnceAfterWindow]_vars

\* a checkin_event has just cancelled a pending timer and armed a new one
C13_Witness ==
    /\ op.name = "checkin_event"
    /\ op.rearmed
    /\ Len(refreshTimers) = 1
    /\ refreshTimers[1].left = EventRefreshDelay

----------------------------------------------------------------------------
(* Claims about event switches (checked under SpecStats) *)

\* the step settles a request that was issued for another event than the
\* current one and applies its response to the stats or to the session list
StaleApplied ==
    /\ op'.name \in {"statsSettled", "sessionsSettled"}
    /\ op'.ok
    /\ \E i \in 1..Len(fetches) :
          /\ fetches' = RemoveAt(fetches, i)
          /\ fetches[i].kind = (IF op'.name = "statsSettled" THEN "stats" ELSE "sessions")
          /\ fetches[i].eventId # currentEventId

\* C14: once the event id has changed, no response to a stats or session-list
\* request issued for the previous event is applied to the client state.
C14_NoStaleResponseApplied ==
    [][~StaleApplied]_vars

----------------------------------------------------------------------------
(* Claims about the socket (checked under SpecConn) *)

\* the subscription the current settings call for
CurrentSubscription == Some([event_id |-> currentEventId, api_key |-> currentApiKey])

\* C15: whenever the socket is connected, after its first connection and after
\* every reconnection, subscribe has been emitted on that connection with the
\* current event id and API key.
C15_ConnectedImpliesSubscribed ==
    link = "open" => subscribed = CurrentSubscription

\* the link has just been opened again after a loss or a failed attempt
C15_Witness ==
    /\ op.name = "connect"
    /\ op.reconnection
    /\ link = "open"
    /\ subscribed = CurrentSubscription

\* C16: a step in which the client itself closes the socket (settings saved,
\* event or key switched, reset with unmount) sets no banner, arms no banner
\* timer and schedules no reconnect, whatever the failure count is.
C16_IntentionalDisconnectIsSilent ==
    [][op'.name \in {"settingsUpdate", "reset"} =>
           /\ error' = error
           /\ connectTimers' = connectTimers
           /\ reconnectTimeoutRef' = Some("pending") => reconnectTimeoutRef = Some("pending")
           /\ link' \in {"none", "connecting"}]_vars

\* an open socket has just been closed by the reset button while the failure
\* count was above both thresholds, and no banner is shown
C16_Witness ==
    /\ op.name = "reset"
    /\ op.was = "open"
    /\ consecutiveFailuresRef > 5
    /\ error = ""

\* C17: a banner is set by connect_error only after more than 5, and by
\* disconnect only after more than 3, connection failures since the last
\* successful connection.
C17_BannerOnlyAfterRepeatedFailures ==
    [][/\ (op'.name = "connect_error" /\ op'.banner) => sinceConnect' > 5
       /\ (op'.name = "disconnect" /\ op'.banner) => sinceConnect > 3]_vars

----------------------------------------------------------------------------
(* Claims about failed fetches (checked under SpecStats) *)

\* the last step was a retry that issued the only request in flight, and this
\* step is the failure of that request
RetryFailsAgain ==
    /\ op.name = "retry"
    /\ op.issued
    /\ Len(fetches) = 1
    /\ op'.name = "statsSettled"
    /\ ~op'.ok

\* C18: a failed stats fetch schedules a retry and leaves the Dashboard
\* running, and when the retried fetch fails again the next retry is scheduled
\* with a longer delay than the one before.
C18_RetryBacksOff ==
    [][/\ (op'.name = "statsSettled" /\ ~op'.ok) =>
              /\ Len(retryTimers') = Len(retryTimers) + 1
              /\ mounted'
       /\ RetryFailsAgain => retryTimers'[Len(retryTimers')].delay > op.delay]_vars

----------------------------------------------------------------------------
(* Claims about the periodic polls (checked under SpecPoll) *)

\* steps that start or restart the Dashboard's effect, or in which time passes
EffectOrTime == {"mount", "settingsUpdate", "reset", "tick"}

\* C19: while the Dashboard is mounted both polls run, each on a timer of its
\* own: only the passing of time and its own firing change a poll's timer, a
\* poll that fires is due again one full period later (180 s or 600 s), and no
\* push, debounce re-arming, refresh, retry or settled fetch cancels or
\* postpones either poll.
C19_PollsRunIndependently ==
    [][/\ mounted' => (statsIntervalRef' # Null /\ sessionsIntervalRef' # Null)
       /\ op'.name \notin EffectOrTime \cup {"statsInterval"} =>
              statsIntervalRef' = statsIntervalRef
       /\ op'.name \notin EffectOrTime \cup {"sessionsInterval"} =>
              sessionsIntervalRef' = sessionsIntervalRef
       /\ op'.name = "statsInterval" =>
              /\ statsIntervalRef[1].left = 0
              /\ statsIntervalRef'[1].left = StatsPeriod
       /\ op'.name = "sessionsInterval" =>
              /\ sessionsIntervalRef[1].left = 0
              /\ sessionsIntervalRef'[1].left = SessionsPeriod]_vars

\* the session-list poll has just fired on time, 600 s after the mount, with a
\* debounce timer armed and a failed stats fetch waiting for its retry
C19_Witness ==
    /\ op.name = "sessionsInterval"
    /\ sessionsIntervalRef[1].left = SessionsPeriod
    /\ statsIntervalRef[1].left < StatsPeriod
    /\ refreshTimers # <<>>
    /\ retryTimers # <<>>

----------------------------------------------------------------------------
(* Claims about the audio context (checked under SpecAudio) *)

\* C20: at most one audio context that is not closed exists at any time, and
\* the context BubbleAnimation holds, the context the SymphonyPlayer holds and
\* the context SettingsPanel unlocks are that one: the context stored in the
\* window global.
C20_OneSharedAudioContext ==
    /\ Cardinality({c \in Constructed : ~IsClosed(c)}) <= 1
    /\ audioContextRef \in {"null", windowCtx}
    /\ audioContext \in {"null", windowCtx}
    /\ op.name = "unlockAudio" => op.ctx \in {"null", windowCtx}

\* the settings panel unlocks the context that a bubble's pop and a note of
\* the symphony have both used before
C20_Witness ==
    /\ op.name = "unlockAudio"
    /\ op.ctx = windowCtx
    /\ windowCtx # "null"
    /\ audioContextRef = windowCtx
    /\ audioContext = windowCtx
    /\ played # <<>>

----------------------------------------------------------------------------
(* Claims about the sound of a note (checked under SpecSeq) *)

StoredReverbMix ==
    IF fxStorage.reverb # "true" THEN 0
    ELSE IF fxStorage.wet = Null THEN ReverbWetDefault
    ELSE IF fxStorage.wet[1] < 0 THEN 0
    ELSE IF fxStorage.wet[1] > 100 THEN 100
    ELSE fxStorage.wet[1]

\* a playNextNote call has just started a sound
NotePlayed == op.name = "playNextNote" /\ op.sounds # {}

\* C22 as stated: every playNextNote that plays a note reads the reverb
\* switch, the reverb mix and the envelope switch from storage, and leaves the
\* wet gain at 0 when reverb is off and at the stored mix clamped to [0, 1]
\* otherwise.
C22_FxReadAtEachNote ==
    NotePlayed =>
        /\ op.read = {"eventmobi_reverb_enabled", "eventmobi_reverb_wet",
                      "eventmobi_envelope_enabled"}
        /\ wetGain = StoredReverbMix

\* C22, amended: every playNextNote that plays a note reads the reverb switch
\* and mix from storage and leaves the wet gain at 0 when reverb is off and at
\* the stored mix clamped to [0, 1] (0.15 when none is stored) otherwise; the
\* envelope switch is read, and decides the envelope, exactly when the note
\* is played by the sampled piano, while the synthesized tone has a fixed
\* envelope.
C22_FxReadAtPointOfUse ==
    NotePlayed =>
        /\ {"eventmobi_reverb_enabled", "eventmobi_reverb_wet"} \subseteq op.read
        /\ wetGain = StoredReverbMix
        /\ "eventmobi_envelope_enabled" \in op.read <=> op.sounds = {"piano"}
        /\ op.sounds = {"piano"} =>
               op.envelope = IF fxStorage.envelope = "false" THEN "hard" ELSE "soft"
        /\ op.sounds = {"tone"} => op.envelope = "fixed"

\* the second note of a loaded song is a piano note played with the hard
\* envelope chosen in storage and with wet gain 1, from a stored mix above 1;
\* the wet gain was 0 before the call, so reverb was switched on since the
\* note before
C22_Witness ==
    /\ NotePlayed
    /\ op.wetBefore = 0
    /\ op.sounds = {"piano"}
    /\ op.envelope = "hard"
    /\ fxStorage.reverb = "true"
    /\ fxStorage.wet = Some(150)
    /\ wetGain = 100
    /\ Len(played) = 2

----------------------------------------------------------------------------
(* Claims about the ABC parser (checked under SpecAbc) *)

\* some L: line of the text matches the pattern of line 268
LGiven(text) ==
    \E n \in 1..Len(splitLines(text)) :
        startsWith(splitLines(text)[n], "L") /\ firstMatch(splitLines(text)[n], fracAt) # 0

\* some Q: line of the text matches one of the patterns of lines 276 and 281
QGiven(text) ==
    \E n \in 1..Len(splitLines(text)) :
        startsWith(splitLines(text)[n], "Q") /\ firstMatch(splitLines(text)[n], digitAt) # 0

\* the same tune with "L:1/8" and "Q:1/4=120" written out for each header
\* that is absent or does not match
WithDefaultsWritten(text) ==
    (IF LGiven(text) THEN <<>> ELSE <<"L", ":", "1", "/", "8", "\n">>)
    \o (IF QGiven(text) THEN <<>>
        ELSE <<"Q", ":", "1", "/", "4", "=", "1", "2", "0", "\n">>)
    \o text

\* C23: parseAbcSimple returns a note list for every tune, uses note length
\* 1/8 when no L: line matches and tempo 1/4 = 120 when no Q: line matches,
\* and then returns the notes it returns for the same tune with those default
\* headers written explicitly.
C23_DefaultsForMissingHeaders ==
    abcNotes # Null =>
        LET h == readHeaders(splitLines(abcText), 1, DefaultHeaders)
        IN  /\ ~LGiven(abcText) => (h.lnum = 1 /\ h.lden = 8)
            /\ ~QGiven(abcText) => (h.qnum = 1 /\ h.qden = 4 /\ h.bpm = 120)
            /\ abcNotes[1] = parseAbcSimple(WithDefaultsWritten(abcText))

\* a tune with an L: line that does not match and no Q: line was parsed; its
\* note "C2" lasts two default units, 0.5 s
C23_Witness ==
    /\ abcNotes # Null
    /\ \E n \in 1..Len(splitLines(abcText)) : startsWith(splitLines(abcText)[n], "L")
    /\ ~LGiven(abcText)
    /\ \A n \in 1..Len(splitLines(abcText)) : ~startsWith(splitLines(abcText)[n], "Q")
    /\ Len(abcNotes[1]) = 2
    /\ abcNotes[1][1] = [midi |-> 60, seconds |-> 500]

----------------------------------------------------------------------------
(* Claims about the session rail (checked under SpecRail) *)

\* the sessions of a list whose start time is a date or absent
Dated(list) == {i \in 1..Len(list) : ~IsNaN(list[i])}

\* C24: the rail shows at most 15 of the sessions received, newest first, and
\* no session left out starts later than a session shown.
C24_RailShowsLatestNewestFirst ==
    displaySessions # Null =>
        LET shown == displaySessions[1]
        IN  /\ Len(shown) <= RailSize
            /\ \A i \in 1..Len(shown) : \E k \in 1..Len(sessions) : sessions[k] = shown[i]
            /\ \A i, j \in Dated(shown) : i < j => getTime(shown[i]) >= getTime(shown[j])
            /\ \A k \in Dated(sessions) :
                   (\A i \in 1..Len(shown) : shown[i] # sessions[k]) =>
                       \A i \in Dated(shown) : getTime(shown[i]) >= getTime(sessions[k])

----------------------------------------------------------------------------
\* C25: webhook registration is best-effort: whenever the register-webhook request
\* of handleEventSelect has settled, whatever its outcome, onSetupComplete has been
\* called (App shows the dashboard) and Setup shows no error.
C25_SetupCompletesDespiteWebhook ==
    op.name = "webhookSettled" => (app.isSetup /\ setup.error = "")

\* C26: unless the user ticked "Keep my key on this device" on the start page, no
\* item of localStorage holds the API key, on the start page, during setup and once
\* the dashboard is shown; the key is then in sessionStorage only.
C26_KeyOnlyInSessionStorage ==
    ~startPage.remember => \A i \in LocalItems : localStorage[i] \notin ApiKeys

\* the client holds a socket that is connected and subscribed for the current
\* event id and API key
LiveSocket ==
    /\ socketRef # Null
    /\ link = "open"
    /\ subscribed = CurrentSubscription

\* C27: after handleSettingsUpdate, for any saved settings (also ones that leave the
\* API key and the event id as they were), the client, as long as the dashboard
\* stays mounted, eventually has a connected, subscribed socket again.
C27_SocketRecreatedAfterSettings ==
    (op.name = "settingsUpdate") ~> (LiveSocket \/ ~mounted)

\* C28: a stats request that fails without having been aborted leaves the stats
\* snapshot, both increment counters and the session list as they were and sets
\* the error message; a stats request that succeeds clears the message.
C28_FailedStatsFetchOnlySetsError ==
    [][op'.name = "statsSettled" =>
          IF op'.ok THEN error' = ""
          ELSE /\ stats' = stats
               /\ eventIncrement' = eventIncrement
               /\ sessionIncrement' = sessionIncrement
               /\ activeSessions' = activeSessions
               /\ error' = "Error loading stats"]_vars

\* a stats request has just failed while both counters were above zero and a
\* fetched snapshot was shown: counters and snapshot are still there, under the
\* error message
C28_Witness ==
    /\ op.name = "statsSettled"
    /\ ~op.ok
    /\ op.counted
    /\ eventIncrement > 0
    /\ sessionIncrement > 0
    /\ stats.session_checkins > 0
    /\ error = "Error loading stats"

\* C29: a session-list request that fails leaves the error banner as it is and
\* empties the displayed session list; the requests that a change of event aborts
\* change neither the list nor the banner, the snapshot or the counters.
C29_FailedSessionFetchIsSilent ==
    [][/\ (op'.name = "sessionsSettled" /\ ~op'.ok) =>
            (error' = error /\ activeSessions' = <<>>)
       /\ (op'.name = "settingsUpdate" /\ op'.aborted) =>
            /\ activeSessions' = activeSessions
            /\ error' = error
            /\ stats' = stats
            /\ eventIncrement' = eventIncrement
            /\ sessionIncrement' = sessionIncrement]_vars

\* a session-list request has just failed while sessions were shown under an
\* error banner: the list is empty now and the banner is still the one of before
C29_Witness ==
    /\ op.name = "sessionsSettled"
    /\ ~op.ok
    /\ op.shown
    /\ activeSessions = <<>>
    /\ error = "Error loading stats"

\* C30: a checkin_poke whose event_id is not the event id the socket's handlers
\* were set up with changes nothing in the client: no lookup is started, no
\* bubble message, counter or note, and the refresh timer is neither cancelled nor
\* armed.
C30_MismatchedPokeIgnored ==
    [][(op'.name = "checkin_poke" /\ ~op'.matched) =>
          UNCHANGED <<seqVars, ctxAvail, appVars, pureVars, fxStorage, dashVars,
                      bubbleVars, serverVars, connVars>>]_vars

\* a poke for another event, carrying a resource id, has just arrived in Symphony
\* mode with the song loaded while the refresh timer of an earlier poke had run
\* for part of its window: the timer keeps its remaining time and no lookup is
\* in flight
C30_Witness ==
    /\ op.name = "checkin_poke"
    /\ ~op.matched
    /\ notes # <<>>
    /\ Len(refreshTimers) = 1
    /\ refreshTimers[1].left \in 1..(PokeRefreshDelay - 1)
    /\ SelectSeq(fetches, IsLookup) = <<>>

----------------------------------------------------------------------------
(* Claims about counting, message ids and the sequencer's cursor *)

\* the step adds one to the counter that a check-in of this event type and
\* check-in type belongs to, and leaves the other counter, or both, as they were
Counted(eventType, checkinType) ==
    /\ eventIncrement' = eventIncrement +
          (IF eventType = "checkin" /\ checkinType = "event" THEN 1 ELSE 0)
    /\ sessionIncrement' = sessionIncrement +
          (IF eventType = "checkin" /\ checkinType = "session" THEN 1 ELSE 0)

\* C31: every received check-in of event type 'checkin', pushed in full or
\* looked up after a poke, adds one to eventIncrement when its check-in type is
\* 'event' and one to sessionIncrement when it is 'session'; an event of any
\* other kind leaves both counters unchanged; sessionIncrement changes only by
\* such a step or by a snapshot, so after n session check-ins without a snapshot
\* it is n.
C31_EachCheckinCountedOnce ==
    [][/\ \A data \in CheckinPayloads :
            CheckinEvent(data, TRUE) => Counted(data.event_type, data.checkin_type)
       /\ \A msg \in MessageBodies \cup TypedBodies :
            (msg.message # "" /\ \E i \in 1..Len(fetches) : LookupSettled(i, TRUE, msg, TRUE))
               => Counted(eventTypeOf(msg), msg.checkin_type)
       /\ sessionIncrement' # sessionIncrement =>
            \/ sessionIncrement' = sessionIncrement + 1
            \/ op'.name = "statsSettled" /\ op'.ok /\ sessionIncrement' = 0]_vars


\* the step accepts a message under an id above every id given before, and
\* remembers that id
FreshId ==
    /\ currentBubbleMessage' # Null
    /\ currentBubbleMessage'[1].id > messageCounterRef
    /\ messageCounterRef' = currentBubbleMessage'[1].id

\* C32: the counter that numbers the bubble messages never goes down, and every
\* message accepted, from a full event or from a poke lookup, before or after
\* the socket was re-created, gets an id above the counter and leaves the
\* counter at that id: ids rise strictly in the order of acceptance and no two
\* messages share one.
C32_MessageIdsStrictlyIncrease ==
    [][/\ messageCounterRef' >= messageCounterRef
       /\ \A data \in CheckinPayloads :
            (data.message # "" /\ CheckinEvent(data, TRUE)) => FreshId
       /\ \A msg \in MessageBodies :
            (msg.message # "" /\ \E i \in 1..Len(fetches) : LookupSettled(i, TRUE, msg, TRUE))
               => FreshId]_vars

\* a looked-up message got the third id on a socket made for another event
C32_Witness ==
    /\ op.name = "lookupSettled"
    /\ op.accepted
    /\ currentBubbleMessage # Null
    /\ currentBubbleMessage[1].id = 3
    /\ currentEventId # "evt-1"
    /\ connected


\* C33: in every state of the sequencer the cursor is 0 when the note list is
\* empty and otherwise a valid index of it (0 <= cursor < number of notes), also
\* when a load completes or fails between two playNextNote calls.
C33_CursorWithinNotes ==
    IF Len(notes) = 0 THEN cursor = 0 ELSE cursor \in 0..(Len(notes) - 1)

\* a load completed after notes were played, and the cursor it found would
\* not be an index of the song it loaded
C33_Witness ==
    /\ op.name = "songSettled"
    /\ op.ok
    /\ notes # <<>>
    /\ op.cursorBefore >= Len(notes)
    /\ cursor = 0


\* init was called for SongB, which in these runs happens only after the call
\* for SongA
SecondRequested ==
    \/ currentSong = SongB
    \/ \E j \in 1..Len(inits) : inits[j].file = SongB

\* C34: when init was called for song A and then for song B before A had
\* finished loading, the step that settles the last of the two loads leaves the
\* sequencer with the notes of B, whichever load it is that settles last.
C34_LatestSelectionWins ==
    [][(inits # Null /\ inits' = Null /\ SecondRequested)
          => notes' = parseAbcToNotes(AbcText(SongB))]_vars


----------------------------------------------------------------------------
(* Claims about the connection indicator, the effect's resources, sound and reset *)

\* C35: whenever the mounted Dashboard's indicator shows 'connected' a socket exists and
\* its link is open; a settings update, the effect's cleanup or a transport loss
\* that closes or discards the socket leaves the indicator at disconnected.
C35_IndicatorMatchesSocket ==
    (mounted /\ connected) => (socketRef # Null /\ link = "open")


\* C36: while the Dashboard is mounted, across any sequence of API-key and event
\* changes, at most one socket that the client has not disconnected, one stats
\* interval and one session-list interval exist, and each of them is the one
\* its ref holds, so that the next cleanup removes it.
C36_OneSocketOneIntervalEach ==
    mounted =>
        /\ live.sockets = Held(socketRef)
        /\ live.stats = Held(statsIntervalRef)
        /\ live.sessions = Held(sessionsIntervalRef)
        /\ live.sockets <= 1 /\ live.stats <= 1 /\ live.sessions <= 1

\* the key and the event were both changed and the effect has set up its
\* socket and intervals again
C36_Witness ==
    /\ op.name = "settingsUpdate"
    /\ mounted
    /\ currentApiKey # "key-1"
    /\ currentEventId # "evt-1"
    /\ live = [sockets |-> 1, stats |-> 1, sessions |-> 1]


\* C37: a check-in produces at most one kind of sound.  In these runs one
\* check-in is received: its bubble pops audibly only if no note was played for
\* it, a note is played only while sound is enabled in Symphony mode, and with
\* sound disabled neither is produced.
C37_OneKindOfSoundPerCheckin ==
    [][/\ (created' # created /\ soundEnabled /\ soundMode # "Symphony")
            => played = <<>>
       /\ Len(played') > Len(played) => (soundEnabled /\ soundMode = "Symphony")]_vars


\* the values that are an API key or an event id
Secrets == ApiKeys \cup EventIds

----------------------------------------------------------------------------
(* Claims about pokes with several ids and about note durations *)

\* the number of checkin-message lookups in flight
Lookups == Len(SelectSeq(fetches, IsLookup))

\* C39: a poke starts one lookup when it carries resource ids, however many,
\* and none when it carries none, and changes neither bubble, counters nor
\* sequencer itself; the answer to a lookup yields at most one message, one
\* counter increment and one sequencer advance, and none of them when the lookup
\* failed or returned no message.
C39_OnePokeOneLookup ==
    [][/\ op'.name = "checkin_poke" =>
            /\ Lookups' = Lookups + (IF op'.matched /\ op'.ids > 0 THEN 1 ELSE 0)
            /\ UNCHANGED <<messageCounterRef, currentBubbleMessage, eventIncrement,
                           sessionIncrement, cursor, played>>
       /\ op'.name = "lookupSettled" =>
            /\ Lookups' = Lookups - 1
            /\ messageCounterRef' - messageCounterRef \in {0, 1}
            /\ (eventIncrement' + sessionIncrement')
                  - (eventIncrement + sessionIncrement) \in {0, 1}
            /\ Len(played') - Len(played) \in {0, 1}
            /\ ~op'.accepted =>
                  UNCHANGED <<messageCounterRef, currentBubbleMessage, eventIncrement,
                              sessionIncrement, cursor, played>>]_vars

\* a poke with several resource ids has just started its one lookup
C39_Witness ==
    /\ op.name = "checkin_poke"
    /\ op.matched
    /\ op.ids > 1
    /\ Lookups = 1
    /\ notes # Null


\* C40: every note parseAbcSimple returns has a duration of at least 0.08 s and
\* at most 1.5 s, whatever the suffix of its token (none, n, n/d, /d, slashes)
\* and whatever the L: and Q: headers of the text.
C40_DurationsClamped ==
    abcNotes # Null =>
        \A k \in 1..Len(abcNotes[1]) :
            abcNotes[1][k].seconds >= 80 /\ abcNotes[1][k].seconds <= 1500

====
